---- MODULE Spec2Model ----
(***************************************************************************)
(* Ingestion pipeline of youtube-digest: the Supadata rate limiter, the    *)
(* exponential-backoff retry wrapper, the transcript chunker and the       *)
(* Qdrant chunk ingestion, the chunk metadata builder and the per-channel   *)
(* video loop.  Each component has its own specification (SpecLimiter,     *)
(* SpecRetry, SpecChunk, SpecIngest, SpecBuilder, SpecPipeline) over one   *)
(* set of variables; a specification leaves the other components'          *)
(* variables at their idle values.                                         *)
(*                                                                         *)
(* Time is counted in ticks of 0.1 s (the limiter's safety margin), so     *)
(* 60 s = 600 ticks and 3600 s = 36000 ticks.                              *)
(***************************************************************************)
EXTENDS Integers, Sequences, FiniteSets, TLC

VARIABLES
    \* ---- SupadataRateLimiter ----
    clock,                \* datetime.now(), in ticks
    ctor,                 \* the arguments __init__ was called with
    requests_per_minute, requests_per_hour, min_request_interval,
    last_request_time,    \* None or a timestamp
    minute_requests, hour_requests,   \* lists of timestamps
    lock,                 \* 0 = free, else the thread holding self.lock
    l_pc,                 \* thread -> "idle" | "waiting"
    l_now,                \* thread -> local `now` of wait_if_needed
    l_wait,               \* thread -> local `wait_time` of wait_if_needed
    admitted,             \* history: the timestamps recorded, in order
    stats,                \* <<result>> of a get_stats() made in the last step, else <<>>
    ticks,                \* number of idle clock advances so far
    \* ---- retry_with_exponential_backoff ----
    r_cfg,                \* the RetryConfig of the decorator
    r_pc,                 \* "call" | "sleeping" | "break" | "returned" | "raised"
    r_attempt,            \* loop variable `attempt`
    r_delay,              \* local `delay` about to be slept
    r_last_exception,     \* local `last_exception`, <<>> for None
    r_calls,              \* history: outcome of each invocation of func
    r_slept,              \* history: the delays passed to time.sleep
    r_out,                \* <<>> or <<what the wrapper returned or raised>>
    \* ---- TranscriptChunker ----
    c_cfg,                \* min_words, max_words, overlap_words of the chunker
    c_in,                 \* transcript_data handed to chunk_supadata_transcript
    c_pc,                 \* "ready" | "done"
    c_out,                \* the list of TranscriptChunk returned
    \* ---- QdrantVectorDB.add_transcript_chunks ----
    store,                \* the points of the Qdrant collection
    g_in,                 \* the arguments of add_transcript_chunks
    g_pc,                 \* "check" | "chunk" | "embed" | "upsert" | "done"
    g_points,             \* local `points`
    g_i,                  \* loop variable `i` of the batch loop
    g_added,              \* local `added_count`
    g_ret,                \* history: the value each finished call returned
    g_scan,               \* history: outcome of each call's existence query
    g_snap,               \* history: the store after each finished call
    g_batches,            \* history: the batches of the current call's loop
    g_embeds,             \* history: calls of generate_embeddings_batch in the current call
    \* ---- ChunkMetadataBuilder ----
    h_now,                \* datetime.utcnow()
    h_seed,               \* the interpreter run (its hash seed)
    h_calls,              \* history: arguments and results of the calls
    \* ---- SummarizationPipeline.process_channel ----
    p_videos,             \* local `videos`, a list of video ids
    p_i,                  \* number of videos the loop is done with
    p_pc,                 \* position in process_channel / process_video
    p_invoked,            \* history: the videos process_video was called on
    p_result,             \* <<>> or <<what process_video returned>>
    p_processed,          \* local `processed_videos`
    \* ---- TranscriptChunker._chunk_plain_text, step by step ----
    w_cfg,                \* max_words and overlap_words of the chunker
    w_text,               \* argument `text`
    w_words,              \* local `words`
    w_start,              \* local `start_word`
    w_index,              \* local `chunk_index`
    w_chunks,             \* local `chunks`
    w_pc,                 \* "enter" | "loop" | "done"
    \* ---- get_rate_limiter ----
    s_global,             \* _global_rate_limiter: None or an instance
    s_lock,               \* 0 = free, else the thread holding _limiter_lock
    s_pc,                 \* thread -> position in get_rate_limiter
    s_built,              \* history: number of SupadataRateLimiter() made
    s_rets,               \* history: what each finished call returned
    \* ---- two tasks in add_transcript_chunks on one collection ----
    q_store,              \* the points of the Qdrant collection
    q_in,                 \* the arguments both tasks were called with
    q_clock,              \* datetime.utcnow()
    q_pc,                 \* task -> "check" | "chunk" | "embed" | "upsert" | "done"
    q_points,             \* task -> local `points`
    q_i,                  \* task -> loop variable `i` of the batch loop
    q_added,              \* task -> local `added_count`
    q_ret,                \* task -> <<>> or <<the value the call returned>>
    q_failed              \* history: the embedding calls and upserts that raised

limiterVars == <<clock, ctor, requests_per_minute, requests_per_hour,
                 min_request_interval, last_request_time, minute_requests,
                 hour_requests, lock, l_pc, l_now, l_wait, admitted, stats,
                 ticks>>

retryVars == <<r_cfg, r_pc, r_attempt, r_delay, r_last_exception, r_calls,
               r_slept, r_out>>

chunkVars == <<c_cfg, c_in, c_pc, c_out>>

ingestVars == <<store, g_in, g_pc, g_points, g_i, g_added, g_ret, g_scan,
                g_snap, g_batches, g_embeds>>

builderVars == <<h_now, h_seed, h_calls>>

pipelineVars == <<p_videos, p_i, p_pc, p_invoked, p_result, p_processed>>

plainVars == <<w_cfg, w_text, w_words, w_start, w_index, w_chunks, w_pc>>

singletonVars == <<s_global, s_lock, s_pc, s_built, s_rets>>

pairVars == <<q_store, q_in, q_clock, q_pc, q_points, q_i, q_added, q_ret,
              q_failed>>

vars == <<limiterVars, retryVars, chunkVars, ingestVars, builderVars,
          pipelineVars, plainVars, singletonVars, pairVars>>

None == -1

Max2(a, b) == IF a >= b THEN a ELSE b
Min2(a, b) == IF a <= b THEN a ELSE b

RECURSIVE SeqMin(_)
SeqMin(s) == IF Len(s) = 1 THEN s[1] ELSE Min2(s[1], SeqMin(Tail(s)))

SelectGreater(s, bound) == SelectSeq(s, LAMBDA x : x > bound)

\* no retry wrapper is running
RetryIdle ==
    /\ r_cfg = <<>>
    /\ r_pc = "idle"
    /\ r_attempt = 0
    /\ r_delay = 0
    /\ r_last_exception = <<>>
    /\ r_calls = <<>>
    /\ r_slept = <<>>
    /\ r_out = <<>>

\* no chunker is running
ChunkIdle ==
    /\ c_cfg = <<>>
    /\ c_in = <<>>
    /\ c_pc = "idle"
    /\ c_out = <<>>

\* no ingestion is running and the collection is empty
IngestIdle ==
    /\ store = {}
    /\ g_in = <<>>
    /\ g_pc = "idle"
    /\ g_points = <<>>
    /\ g_i = 0
    /\ g_added = 0
    /\ g_ret = <<>>
    /\ g_scan = <<>>
    /\ g_snap = <<>>
    /\ g_batches = <<>>
    /\ g_embeds = 0

\* no metadata is being built
BuilderIdle ==
    /\ h_now = 0
    /\ h_seed = 0
    /\ h_calls = <<>>

\* no channel is being processed
PipelineIdle ==
    /\ p_videos = <<>>
    /\ p_i = 0
    /\ p_pc = "idle"
    /\ p_invoked = <<>>
    /\ p_result = <<>>
    /\ p_processed = <<>>

\* no text is being windowed
PlainIdle ==
    /\ w_cfg = <<>>
    /\ w_text = <<>>
    /\ w_words = <<>>
    /\ w_start = 0
    /\ w_index = 0
    /\ w_chunks = <<>>
    /\ w_pc = "idle"

\* get_rate_limiter was never called
SingletonIdle ==
    /\ s_global = None
    /\ s_lock = 0
    /\ s_pc = <<>>
    /\ s_built = 0
    /\ s_rets = <<>>

\* no pair of tasks is running
PairIdle ==
    /\ q_store = {}
    /\ q_in = <<>>
    /\ q_clock = 0
    /\ q_pc = <<>>
    /\ q_points = <<>>
    /\ q_i = <<>>
    /\ q_added = <<>>
    /\ q_ret = <<>>
    /\ q_failed = {}

(***************************************************************************)
(*                         SupadataRateLimiter                             *)
(***************************************************************************)

\* ---- bounds ----
NThreads == 2
MaxCalls == 3
MaxTicks == 1

Threads == 1..NThreads

\* ---- program constants (ticks of 0.1 s) ----
MINUTE == 600
HOUR == 36000
MARGIN == 1

\* idle time that may pass between two steps
Jumps == {1, 10, MINUTE, HOUR}
\* time.sleep() may return later than asked
Overshoot == {0, 1}

\* os.getenv(...) results used when an argument is falsy
EnvPerMinute == 2
EnvPerHour == 3
EnvMinInterval == 10

CtorArgs == [rpm : {None, 1}, rph : {None, 2}, mi : {None, 0, 5}]

\* `x or default`: None and 0 are both falsy
OrDefault(x, default) == IF x = None \/ x = 0 THEN default ELSE x

InitLimiter ==
    /\ clock = 0
    /\ ctor \in CtorArgs
    /\ requests_per_minute = OrDefault(ctor.rpm, EnvPerMinute)
    /\ requests_per_hour = OrDefault(ctor.rph, EnvPerHour)
    /\ min_request_interval = OrDefault(ctor.mi, EnvMinInterval)
    /\ last_request_time = None
    /\ minute_requests = <<>>
    /\ hour_requests = <<>>
    /\ lock = 0
    /\ l_pc = [t \in Threads |-> "idle"]
    /\ l_now = [t \in Threads |-> 0]
    /\ l_wait = [t \in Threads |-> 0]
    /\ admitted = <<>>
    /\ stats = <<>>
    /\ ticks = 0
    /\ RetryIdle
    /\ ChunkIdle
    /\ IngestIdle
    /\ BuilderIdle
    /\ PipelineIdle
    /\ PlainIdle
    /\ SingletonIdle
    /\ PairIdle

\* the limiter constructed with defaults and never used
LimiterIdle ==
    /\ clock = 0
    /\ ctor = [rpm |-> None, rph |-> None, mi |-> None]
    /\ requests_per_minute = EnvPerMinute
    /\ requests_per_hour = EnvPerHour
    /\ min_request_interval = EnvMinInterval
    /\ last_request_time = None
    /\ minute_requests = <<>>
    /\ hour_requests = <<>>
    /\ lock = 0
    /\ l_pc = [t \in Threads |-> "idle"]
    /\ l_now = [t \in Threads |-> 0]
    /\ l_wait = [t \in Threads |-> 0]
    /\ admitted = <<>>
    /\ stats = <<>>
    /\ ticks = 0

\* mutant: the minute list is never pruned
CleanMinuteKeepsAll(reqs, now) == reqs

\* _cleanup_old_requests: the lists after pruning at time `now`
CleanMinute(reqs, now) == SelectGreater(reqs, now - MINUTE)
CleanHour(reqs, now) == SelectGreater(reqs, now - HOUR)

\* mutant: the minimum-interval check is skipped
IntervalWaitSkipped(now) == 0

\* the minimum-interval wait (lines 49-52)
IntervalWait(now) ==
    IF last_request_time # None
       /\ now - last_request_time < min_request_interval
    THEN min_request_interval - (now - last_request_time)
    ELSE 0

\* the window wait (lines 55-59 and 63-67) for a pruned list
WindowWait(reqs, limit, window, now) ==
    IF Len(reqs) >= limit /\ Len(reqs) > 0
       /\ window - (now - SeqMin(reqs)) > 0
    THEN window - (now - SeqMin(reqs)) + MARGIN
    ELSE 0

\* mutant: the three waits are added up
WaitTimeSummed(mreqs, hreqs, now) ==
    IntervalWait(now)
      + WindowWait(mreqs, requests_per_minute, MINUTE, now)
      + WindowWait(hreqs, requests_per_hour, HOUR, now)

\* wait_time of wait_if_needed, computed on the pruned lists
WaitTime(mreqs, hreqs, now) ==
    Max2(Max2(0, IntervalWait(now)),
         Max2(WindowWait(mreqs, requests_per_minute, MINUTE, now),
              WindowWait(hreqs, requests_per_hour, HOUR, now)))

\* mutant: the body runs without taking self.lock
LockFreeUnguarded == TRUE

\* `with self.lock:` can be entered
LockFree == lock = 0

\* wait_if_needed, lines 39-69: take the lock, read the clock, prune,
\* compute wait_time
WaitEnter(t) ==
    /\ l_pc[t] = "idle"
    /\ Len(admitted) < MaxCalls
    /\ LockFree
    /\ lock' = t
    /\ LET now == clock
           m == CleanMinute(minute_requests, now)
           h == CleanHour(hour_requests, now)
       IN /\ minute_requests' = m
          /\ hour_requests' = h
          /\ l_now' = [l_now EXCEPT ![t] = now]
          /\ l_wait' = [l_wait EXCEPT ![t] = WaitTime(m, h, now)]
    /\ l_pc' = [l_pc EXCEPT ![t] = "waiting"]
    /\ stats' = <<>>
    /\ UNCHANGED <<clock, ctor, requests_per_minute, requests_per_hour,
                   min_request_interval, last_request_time, admitted, ticks>>
    /\ UNCHANGED <<retryVars, chunkVars, ingestVars, builderVars,
                   pipelineVars, plainVars, singletonVars, pairVars>>

\* mutant: the lock is still held after the call returned
LockStillHeld(t) == lock

\* the lock once the `with self.lock:` block of thread t is left
LockReleased(t) == IF lock = t THEN 0 ELSE lock

\* wait_if_needed, lines 71-79: sleep when wait_time > 0 and re-read the
\* clock, record the request, release the lock
WaitFinish(t) ==
    /\ l_pc[t] = "waiting"
    /\ \E over \in Overshoot :
         LET woke == Max2(clock, l_now[t] + l_wait[t]) + over
             now == IF l_wait[t] > 0 THEN woke ELSE l_now[t]
         IN /\ clock' = IF l_wait[t] > 0 THEN woke ELSE clock
            /\ minute_requests' = Append(minute_requests, now)
            /\ hour_requests' = Append(hour_requests, now)
            /\ last_request_time' = now
            /\ admitted' = Append(admitted,
                                  [at |-> now, by |-> t])
    /\ lock' = LockReleased(t)
    /\ l_pc' = [l_pc EXCEPT ![t] = "idle"]
    /\ l_now' = [l_now EXCEPT ![t] = 0]
    /\ l_wait' = [l_wait EXCEPT ![t] = 0]
    /\ stats' = <<>>
    /\ UNCHANGED <<ctor, requests_per_minute, requests_per_hour,
                   min_request_interval, ticks>>
    /\ UNCHANGED <<retryVars, chunkVars, ingestVars, builderVars,
                   pipelineVars, plainVars, singletonVars, pairVars>>

\* mutant: get_stats counts the list without pruning it first
StatsMinuteUnpruned(now) == minute_requests

\* the list get_stats counts for requests_last_minute
StatsMinute(now) == CleanMinute(minute_requests, now)

\* get_stats, lines 89-102
GetStats(t) ==
    /\ l_pc[t] = "idle"
    /\ LockFree
    /\ LET now == clock
       IN /\ minute_requests' = CleanMinute(minute_requests, now)
          /\ hour_requests' = CleanHour(hour_requests, now)
          /\ stats' = <<[requests_last_minute |-> Len(StatsMinute(now)),
                       requests_last_hour |-> Len(CleanHour(hour_requests, now)),
                       minute_limit |-> requests_per_minute,
                       hour_limit |-> requests_per_hour,
                       last_request |-> last_request_time,
                       min_interval |-> min_request_interval]>>
    /\ UNCHANGED <<clock, ctor, requests_per_minute, requests_per_hour,
                   min_request_interval, last_request_time, lock, l_pc,
                   l_now, l_wait, admitted, ticks>>
    /\ UNCHANGED <<retryVars, chunkVars, ingestVars, builderVars,
                   pipelineVars, plainVars, singletonVars, pairVars>>

\* time passes while no thread is inside the limiter
Tick ==
    /\ ticks < MaxTicks
    /\ lock = 0
    /\ \E d \in Jumps : clock' = clock + d
    /\ ticks' = ticks + 1
    /\ stats' = <<>>
    /\ UNCHANGED <<ctor, requests_per_minute, requests_per_hour,
                   min_request_interval, last_request_time, minute_requests,
                   hour_requests, lock, l_pc, l_now, l_wait, admitted>>
    /\ UNCHANGED <<retryVars, chunkVars, ingestVars, builderVars,
                   pipelineVars, plainVars, singletonVars, pairVars>>

NextLimiter ==
    \/ \E t \in Threads : WaitEnter(t)
    \/ \E t \in Threads : WaitFinish(t)
    \/ \E t \in Threads : GetStats(t)
    \/ Tick

SpecLimiter == InitLimiter /\ [][NextLimiter]_vars

\* the limiter with a clock that advances: time.sleep(wait_time) returns
\* after a finite time, so a thread that sleeps inside wait_if_needed goes
\* on to record its request and leave the `with` block
SpecLimiterFair ==
    /\ InitLimiter
    /\ [][NextLimiter]_vars
    /\ \A t \in Threads : WF_vars(WaitFinish(t))

\* number of recorded requests in the rolling window (at - window, at] that
\* ends at the i-th recorded request
WindowCount(i, window) ==
    Cardinality({j \in 1..Len(admitted) :
                    /\ admitted[j].at > admitted[i].at - window
                    /\ admitted[j].at <= admitted[i].at})

\* C2: with one shared limiter and concurrent callers, no rolling 60 s window
\* holds more than requests_per_minute recorded requests and no rolling
\* 3600 s window more than requests_per_hour, counted over all callers.
C2_GlobalCeiling ==
    \A i \in 1..Len(admitted) :
        /\ WindowCount(i, MINUTE) <= requests_per_minute
        /\ WindowCount(i, HOUR) <= requests_per_hour

\* C2 witness: more requests than the per-minute limit were admitted, by two
\* different threads, and the window ending at the last one is at capacity.
C2_Witness ==
    /\ Len(admitted) > requests_per_minute
    /\ \E i, j \in 1..Len(admitted) : admitted[i].by # admitted[j].by
    /\ WindowCount(Len(admitted), MINUTE) = requests_per_minute

\* C3: whatever calls came before, get_stats reports
\* requests_last_minute <= minute_limit.
C3_StatsWithinLimit ==
    stats # <<>> => stats[1].requests_last_minute <= stats[1].minute_limit

\* C3 witness: get_stats returns after a burst of more calls than the
\* per-minute limit and reports exactly the limit.
C3_Witness ==
    /\ stats # <<>>
    /\ Len(admitted) > requests_per_minute
    /\ stats[1].requests_last_minute = stats[1].minute_limit

\* C4: two consecutively recorded requests are at least
\* min_request_interval apart, whichever threads made them.
C4_MinInterval ==
    \A i \in 1..(Len(admitted) - 1) :
        admitted[i + 1].at - admitted[i].at >= min_request_interval

\* C4 witness: two consecutive requests of different threads exactly
\* min_request_interval apart.
C4_Witness ==
    \E i \in 1..(Len(admitted) - 1) :
        /\ admitted[i].by # admitted[i + 1].by
        /\ admitted[i + 1].at - admitted[i].at = min_request_interval

\* the three waits of a caller that read the clock at `now`, from the
\* limiter's fields as they are while the caller sleeps
IntervalRemainder(now) ==
    IF last_request_time = None THEN 0
    ELSE Max2(0, min_request_interval - (now - last_request_time))

\* time until the oldest entry of a window at capacity is `window` old, plus
\* the margin; 0 for a window below capacity
AgeOutWait(reqs, limit, window, now) ==
    IF Len(reqs) < limit THEN 0
    ELSE LET oldest == CHOOSE x \in {reqs[k] : k \in 1..Len(reqs)} :
                           \A k \in 1..Len(reqs) : x <= reqs[k]
         IN (oldest + window - now) + MARGIN

\* the largest of three numbers
Largest(a, b, c) == CHOOSE m \in {a, b, c} : m >= a /\ m >= b /\ m >= c

\* the last element of a non-empty list
Last(s) == s[Len(s)]

\* C24: the time a caller of wait_if_needed sleeps is the largest of the
\* remainder of the minimum interval, the age-out wait of the minute window
\* and the age-out wait of the hour window (0 when none applies, and then
\* the call does not sleep: the clock is left alone and the timestamp
\* recorded is the one read on entry); on return the timestamp read after
\* the sleep is the last entry of both windows and last_request_time.
C24_SleepIsMaxAndRecorded ==
    /\ [](\A t \in Threads :
             l_pc[t] = "waiting" =>
                 l_wait[t]
                   = Largest(IntervalRemainder(l_now[t]),
                             AgeOutWait(minute_requests, requests_per_minute,
                                        MINUTE, l_now[t]),
                             AgeOutWait(hour_requests, requests_per_hour,
                                        HOUR, l_now[t])))
    /\ [][\A t \in Threads :
             (l_pc[t] = "waiting" /\ l_pc'[t] = "idle") =>
                 /\ Last(minute_requests') = last_request_time'
                 /\ Last(hour_requests') = last_request_time'
                 /\ Len(minute_requests') = Len(minute_requests) + 1
                 /\ Len(hour_requests') = Len(hour_requests) + 1
                 /\ last_request_time' >= l_now[t] + l_wait[t]
                 /\ last_request_time' = clock'
                      \/ (l_wait[t] = 0 /\ last_request_time' = l_now[t])
                 /\ l_wait[t] = 0 => clock' = clock]_vars

\* C24 witness: a caller is about to sleep for the minute window's age-out
\* wait while the minimum interval has a remainder too, smaller than it.
C24_Witness ==
    \E t \in Threads :
        /\ l_pc[t] = "waiting"
        /\ IntervalRemainder(l_now[t]) > 0
        /\ AgeOutWait(minute_requests, requests_per_minute, MINUTE, l_now[t])
              > IntervalRemainder(l_now[t])
        /\ l_wait[t] = AgeOutWait(minute_requests, requests_per_minute,
                                  MINUTE, l_now[t])

\* the timestamps held in a list
Held(reqs) == {reqs[k] : k \in 1..Len(reqs)}

\* C25: every timestamp in the minute window is in the hour window too, a
\* get_stats result never reports more requests for the last minute than
\* for the last hour, and last_request_time is unset exactly as long as
\* nothing was recorded and is otherwise the latest timestamp recorded: no
\* entry of either window is later, and it is the last entry of any window
\* that is not empty.
C25_WindowsConsistent ==
    /\ Held(minute_requests) \subseteq Held(hour_requests)
    /\ stats # <<>> =>
           stats[1].requests_last_minute <= stats[1].requests_last_hour
    /\ (last_request_time = None) <=> (admitted = <<>>)
    /\ admitted # <<>> =>
           /\ last_request_time = Last(admitted).at
           /\ \A x \in Held(minute_requests) \cup Held(hour_requests) :
                  x <= last_request_time
           /\ minute_requests # <<>> =>
                  Last(minute_requests) = last_request_time
           /\ hour_requests # <<>> => Last(hour_requests) = last_request_time

\* C25 witness: a request has left the minute window and is still in the
\* hour window, with a later request in both.
C25_Witness ==
    /\ Len(hour_requests) > Len(minute_requests)
    /\ Len(minute_requests) > 0
    /\ last_request_time = Last(hour_requests)

\* C27: whenever the lock is held or a thread is inside wait_if_needed, a
\* state follows in which the lock is free and no thread is inside
\* wait_if_needed: the call in progress returns, and a thread waiting to
\* enter wait_if_needed or get_stats is never blocked for ever (get_stats
\* itself holds the lock for no longer than its own bookkeeping).
C27_CallsReturn ==
    (lock # 0 \/ \E t \in Threads : l_pc[t] = "waiting")
        ~> (lock = 0 /\ \A t \in Threads : l_pc[t] = "idle")

\* C27 witness: after a call that slept with the lock held has returned
\* and released it, another thread is inside wait_if_needed, due to sleep
\* as well.
C27_Witness ==
    \E t \in Threads :
        /\ l_pc[t] = "waiting"
        /\ lock = t
        /\ l_wait[t] > 0
        /\ \E k \in 1..Len(admitted) :
               admitted[k].by # t /\ admitted[k].at > 0

\* C17 as stated (refuted by the code): each of the three settings is the
\* value the constructor was given when one was given, 0 included, and the
\* environment's value only when none was given.
C17_ExplicitValuesUsed ==
    /\ requests_per_minute
          = IF ctor.rpm = None THEN EnvPerMinute ELSE ctor.rpm
    /\ requests_per_hour
          = IF ctor.rph = None THEN EnvPerHour ELSE ctor.rph
    /\ min_request_interval
          = IF ctor.mi = None THEN EnvMinInterval ELSE ctor.mi

(***************************************************************************)
(*                   retry_with_exponential_backoff                        *)
(* Delays are counted in units of 0.25 s, so the 25% jitter range of a     *)
(* delay that is a multiple of 4 units is a whole number of units.         *)
(***************************************************************************)

\* ---- bounds ----
MaxRetriesBound == 2

\* Python's exception classes: each class with its base class
BaseClass ==
    [ConnectionResetError |-> "ConnectionError",
     ConnectionError |-> "OSError",
     TimeoutError |-> "OSError",
     HTTPError |-> "OSError",
     OSError |-> "Exception",
     ValueError |-> "Exception",
     Exception |-> "Exception"]

RECURSIVE Mro(_)
\* the class and all its bases
Mro(k) == IF k = "Exception" THEN {k} ELSE {k} \cup Mro(BaseClass[k])

\* isinstance(exception, classes)
IsInstance(e, classes) == Mro(e.kind) \cap classes # {}

\* RetryConfig.__init__ defaults (lines 34-44)
DefaultStatusCodes == {429, 500, 502, 503, 504}
DefaultExceptions == {"ConnectionError", "TimeoutError"}

\* RetryConfig.__init__: None and an empty collection are both falsy
RetryConfig(mr, bd, md, ef, j, codes, excs) ==
    [max_retries |-> mr, base_delay |-> bd, max_delay |-> md,
     exponential_factor |-> ef, jitter |-> j,
     retryable_status_codes |-> IF codes = {} THEN DefaultStatusCodes ELSE codes,
     retryable_exceptions |-> IF excs = {} THEN DefaultExceptions ELSE excs]

\* the configurations tried
RetryConfigs ==
    {RetryConfig(mr, bd, md, 2, j, codes, excs) :
        mr \in 0..MaxRetriesBound, bd \in {4, 8}, md \in {8, 16},
        j \in BOOLEAN, codes \in {{}, {408, 429}},
        excs \in {{}, {"ConnectionError"}}}

\* what func can raise: status = None when the exception has no
\* response.status_code
Errors ==
    {[kind |-> "ConnectionResetError", status |-> None],
     [kind |-> "TimeoutError", status |-> 404],
     [kind |-> "ValueError", status |-> None],
     [kind |-> "HTTPError", status |-> 503],
     [kind |-> "HTTPError", status |-> 408],
     [kind |-> "HTTPError", status |-> 404]}

RECURSIVE Pow(_, _)
Pow(b, n) == IF n = 0 THEN 1 ELSE b * Pow(b, n - 1)

\* mutant: the delay is not capped at max_delay
NominalDelayUncapped(attempt, config) ==
    config.base_delay * Pow(config.exponential_factor, attempt)

\* calculate_delay, lines 49-50: the delay before jitter
NominalDelay(attempt, config) ==
    Min2(config.base_delay * Pow(config.exponential_factor, attempt),
         config.max_delay)

\* calculate_delay, lines 52-57: the values random.uniform can add
JitterChoices(delay, config) ==
    IF config.jitter
    THEN {-(delay \div 4), 0, delay \div 4}
    ELSE {0}

\* calculate_delay: the delays it can return
calculate_delay(attempt, config) ==
    {Max2(0, NominalDelay(attempt, config) + x) :
        x \in JitterChoices(NominalDelay(attempt, config), config)}

\* mutant: only the exception type is looked at
is_retryable_type_only(exception, config) ==
    IsInstance(exception, config.retryable_exceptions)

\* is_retryable_error, lines 60-70
is_retryable_error(exception, config) ==
    IF IsInstance(exception, config.retryable_exceptions)
    THEN TRUE
    ELSE IF exception.status # None
         THEN exception.status \in config.retryable_status_codes
         ELSE FALSE

\* mutant: the loop allows one attempt more
IsLastAttemptLate(attempt, config) == attempt = config.max_retries + 1

\* line 91: `attempt == config.max_retries`
IsLastAttempt(attempt, config) == attempt = config.max_retries

\* mutant: the first error is kept instead of the last
KeptExceptionFirst(old, e) == IF old = <<>> THEN <<e>> ELSE old

\* line 88: last_exception = e
KeptException(old, e) == <<e>>

InitRetry ==
    /\ r_cfg \in RetryConfigs
    /\ r_pc = "call"
    /\ r_attempt = 0
    /\ r_delay = 0
    /\ r_last_exception = <<>>
    /\ r_calls = <<>>
    /\ r_slept = <<>>
    /\ r_out = <<>>
    /\ LimiterIdle
    /\ ChunkIdle
    /\ IngestIdle
    /\ BuilderIdle
    /\ PipelineIdle
    /\ PlainIdle
    /\ SingletonIdle
    /\ PairIdle

\* lines 83-85: func is invoked and returns; the wrapper returns its result
CallReturns ==
    /\ r_pc = "call"
    /\ r_calls' = Append(r_calls, [ok |-> TRUE, id |-> Len(r_calls) + 1])
    /\ r_out' = <<[returned |-> Len(r_calls) + 1]>>
    /\ r_pc' = "returned"
    /\ UNCHANGED <<r_cfg, r_attempt, r_delay, r_last_exception, r_slept>>
    /\ UNCHANGED <<limiterVars, chunkVars, ingestVars, builderVars,
                   pipelineVars, plainVars, singletonVars, pairVars>>

\* lines 83-111: func is invoked and raises e; the handler decides between
\* giving up and sleeping
CallRaises ==
    /\ r_pc = "call"
    /\ \E err \in Errors :
         LET e == [ok |-> FALSE, id |-> Len(r_calls) + 1, kind |-> err.kind,
                   status |-> err.status]
         IN /\ r_calls' = Append(r_calls, e)
            /\ r_last_exception' = KeptException(r_last_exception, e)
            /\ IF IsLastAttempt(r_attempt, r_cfg)
               THEN r_pc' = "break" /\ r_delay' = r_delay
               ELSE IF ~is_retryable_error(e, r_cfg)
                    THEN r_pc' = "break" /\ r_delay' = r_delay
                    ELSE /\ r_pc' = "sleeping"
                         /\ r_delay' \in calculate_delay(r_attempt, r_cfg)
    /\ UNCHANGED <<r_cfg, r_attempt, r_slept, r_out>>
    /\ UNCHANGED <<limiterVars, chunkVars, ingestVars, builderVars,
                   pipelineVars, plainVars, singletonVars, pairVars>>

\* line 113 and the loop header: sleep, then the next attempt
Sleep ==
    /\ r_pc = "sleeping"
    /\ r_slept' = Append(r_slept, r_delay)
    /\ r_attempt' = r_attempt + 1
    /\ r_delay' = 0
    /\ r_pc' = "call"
    /\ UNCHANGED <<r_cfg, r_last_exception, r_calls, r_out>>
    /\ UNCHANGED <<limiterVars, chunkVars, ingestVars, builderVars,
                   pipelineVars, plainVars, singletonVars, pairVars>>

\* lines 115-117: after the loop, raise last_exception
Reraise ==
    /\ r_pc = "break"
    /\ r_out' = <<[raised |-> r_last_exception[1]]>>
    /\ r_pc' = "raised"
    /\ UNCHANGED <<r_cfg, r_attempt, r_delay, r_last_exception, r_calls,
                   r_slept>>
    /\ UNCHANGED <<limiterVars, chunkVars, ingestVars, builderVars,
                   pipelineVars, plainVars, singletonVars, pairVars>>

NextRetry ==
    \/ CallReturns
    \/ CallRaises
    \/ Sleep
    \/ Reraise

SpecRetry == InitRetry /\ [][NextRetry]_vars

\* the last invocation of func so far
LastCall == r_calls[Len(r_calls)]

\* the classification the specification gives: the error's kind is one of the
\* retryable kinds, or it carries a retryable status code
RetryableKindOrStatus(e) ==
    \/ \E k \in r_cfg.retryable_exceptions : k \in Mro(e.kind)
    \/ e.status # None /\ e.status \in r_cfg.retryable_status_codes

\* C5: func is invoked until the first success, the first non-retryable
\* error or max_retries + 1 invocations, whichever comes first; every earlier
\* invocation failed with a retryable error and was followed by one sleep,
\* and nothing is slept after the final invocation; a success on attempt k
\* returns that attempt's result.
C5_AttemptCount ==
    LET n == Len(r_calls)
    IN /\ n <= r_cfg.max_retries + 1
       /\ \A k \in 1..(n - 1) :
             ~r_calls[k].ok /\ RetryableKindOrStatus(r_calls[k])
       /\ r_pc = "call" =>
             /\ Len(r_slept) = n
             /\ n <= r_cfg.max_retries
             /\ n > 0 => ~LastCall.ok /\ RetryableKindOrStatus(LastCall)
       /\ r_pc \in {"sleeping", "break", "returned", "raised"} =>
             /\ n >= 1
             /\ Len(r_slept) = n - 1
       /\ r_pc = "sleeping" => n <= r_cfg.max_retries
       /\ r_pc \in {"break", "raised"} =>
             /\ ~LastCall.ok
             /\ ~RetryableKindOrStatus(LastCall) \/ n = r_cfg.max_retries + 1
       /\ r_pc = "returned" =>
             /\ LastCall.ok
             /\ r_out = <<[returned |-> n]>>

\* C5 witness: an operation that failed with a retryable error on every one
\* of max_retries + 1 >= 2 attempts has been given up.
C5_Witness ==
    /\ r_pc = "raised"
    /\ r_cfg.max_retries >= 1
    /\ Len(r_calls) = r_cfg.max_retries + 1
    /\ RetryableKindOrStatus(LastCall)

\* C6 as stated (refuted): for every RetryConfig the delays slept are
\* non-decreasing and none exceeds max_delay.
C6_DelaysMonotoneCapped ==
    \A k \in 1..Len(r_slept) :
        /\ r_slept[k] <= r_cfg.max_delay
        /\ k > 1 => r_slept[k - 1] <= r_slept[k]

\* C6 amended: with jitter disabled the delays slept are non-decreasing and
\* none exceeds max_delay; with jitter enabled the k-th delay lies within 25%
\* of min(base_delay * exponential_factor^(k-1), max_delay), so it is at most
\* 1.25 * max_delay.
C6_DelaysWithinJitter ==
    \A k \in 1..Len(r_slept) :
        LET nominal == Min2(r_cfg.base_delay
                              * Pow(r_cfg.exponential_factor, k - 1),
                            r_cfg.max_delay)
        IN IF r_cfg.jitter
           THEN /\ 3 * nominal <= 4 * r_slept[k]
                /\ 4 * r_slept[k] <= 5 * nominal
                /\ 4 * r_slept[k] <= 5 * r_cfg.max_delay
           ELSE /\ r_slept[k] <= r_cfg.max_delay
                /\ k > 1 => r_slept[k - 1] <= r_slept[k]

\* C6 witness: without jitter two delays were slept, the second larger than
\* the first and equal to max_delay.
C6_Witness ==
    /\ ~r_cfg.jitter
    /\ Len(r_slept) = 2
    /\ r_slept[1] < r_slept[2]
    /\ r_slept[2] = r_cfg.max_delay

\* C7: when the wrapper gives up, the error it raises is the error of the
\* last invocation, unchanged.
C7_RaisesLastError ==
    r_pc = "raised" => r_out = <<[raised |-> LastCall]>>

\* C7 witness: the wrapper gave up after two invocations that failed with
\* different errors.
C7_Witness ==
    /\ r_pc = "raised"
    /\ Len(r_calls) >= 2
    /\ r_calls[1].kind # LastCall.kind

\* C8: a failed attempt that is not the last one is followed by a sleep and
\* another attempt exactly when the error's kind is a retryable kind or it
\* carries a retryable status code; otherwise the loop is left at once.
C8_Classification ==
    /\ r_pc = "sleeping" => RetryableKindOrStatus(LastCall)
    /\ (r_pc \in {"break", "raised"} /\ Len(r_calls) <= r_cfg.max_retries)
          => ~RetryableKindOrStatus(LastCall)

\* C8 witness: an error retried because of its status code alone, then an
\* error of a non-retryable kind without status code that ended the loop
\* with attempts left.
C8_Witness ==
    /\ r_pc = "raised"
    /\ Len(r_calls) = 2
    /\ r_cfg.max_retries >= 2
    /\ r_calls[1].kind = "HTTPError"
    /\ LastCall.kind = "ValueError"

(***************************************************************************)
(*                          TranscriptChunker                              *)
(* A text is a sequence of tokens: words and single spaces " ".  A word    *)
(* that ends with one of the sentence endings is listed in BreakWords.     *)
(***************************************************************************)

\* ---- bounds ----
MaxSegs == 3
MaxPlainWords == 9

\* the vocabulary of the transcripts tried
BreakWords == {"ok."}

SegTexts == {<<>>, <<"uh">>, <<"ok.">>, <<"uh", " ", "uh">>}

\* the segments tried: dicts with text, offset, duration and an optional lang
SegmentPool ==
    [text : SegTexts, offset : {0, 5}, duration : {0, 3}, lang : {"absent"}]
    \cup {[text |-> <<"ok.", " ">>, offset |-> 5, duration |-> 3, lang |-> "de"],
          [text |-> <<"uh">>, offset |-> 0, duration |-> 3, lang |-> "de"]}

SegLists == UNION {[1..n -> SegmentPool] : n \in 0..MaxSegs}

ChunkerConfigs ==
    {[min_words |-> 2, max_words |-> 4, overlap_words |-> 1],
     [min_words |-> 3, max_words |-> 1, overlap_words |-> 0]}


\* text.split()
Split(text) == SelectSeq(text, LAMBDA tok : tok # " ")

\* word_count, lines 35-37
word_count(text) == Len(Split(text))

RECURSIVE Join(_)
\* " ".join(texts)
Join(texts) ==
    IF Len(texts) = 0 THEN <<>>
    ELSE IF Len(texts) = 1 THEN texts[1]
    ELSE texts[1] \o <<" ">> \o Join(Tail(texts))

\* a plain text of n distinct words "1" .. "n"
PlainText(n) == Join([k \in 1..n |-> <<ToString(k)>>])

Transcripts ==
    {[kind |-> "list", content |-> c, lang |-> "fr"] : c \in SegLists}
    \cup {[kind |-> "str", content |-> PlainText(n), lang |-> "fr"] :
             n \in 0..MaxPlainWords}

\* mutant: no text counts as the end of a sentence
is_natural_break_never(text) == FALSE

\* _is_natural_break, lines 230-238
is_natural_break(text) ==
    LET words == Split(text)
    IN IF Len(words) = 0 THEN FALSE
       ELSE words[Len(words)] \in BreakWords

\* mutant: the merged segment ends where its last segment starts
merge_buffer_ends_at_last_offset(buffer) ==
    IF Len(buffer) = 0 THEN <<>>
    ELSE IF Len(buffer) = 1 THEN buffer[1]
    ELSE [text |-> Join([k \in 1..Len(buffer) |-> buffer[k].text]),
          offset |-> buffer[1].offset,
          duration |-> buffer[Len(buffer)].offset - buffer[1].offset,
          lang |-> IF buffer[1].lang = "absent" THEN "en"
                   ELSE buffer[1].lang]

\* _merge_buffer, lines 189-228
merge_buffer(buffer) ==
    IF Len(buffer) = 0 THEN <<>>
    ELSE IF Len(buffer) = 1 THEN buffer[1]
    ELSE LET first_seg == buffer[1]
             last_seg == buffer[Len(buffer)]
             start_offset == first_seg.offset
             end_offset == last_seg.offset + last_seg.duration
         IN [text |-> Join([k \in 1..Len(buffer) |-> buffer[k].text]),
             offset |-> start_offset,
             duration |-> end_offset - start_offset,
             lang |-> IF first_seg.lang = "absent" THEN "en"
                      ELSE first_seg.lang]

\* one pass of the loop body of _merge_small_segments, lines 157-180: the
\* locals after `segment` has been handled
MergeStep(segment, locals, cfg) ==
    LET buffer == Append(locals.current_buffer, segment)
        count == locals.current_word_count + word_count(segment.text)
    IN IF \/ count >= cfg.min_words
          \/ count >= cfg.max_words
          \/ is_natural_break(segment.text)
       THEN [current_buffer |-> <<>>, current_word_count |-> 0,
             merged |-> Append(locals.merged, merge_buffer(buffer))]
       ELSE [current_buffer |-> buffer, current_word_count |-> count,
             merged |-> locals.merged]

RECURSIVE MergeLoop(_, _, _, _, _)
\* the loop of _merge_small_segments, line 157: the locals after the
\* segments lo..hi have been handled in order, starting from `locals`.
\* The range is halved, and the first half is evaluated before the second
\* is entered (the test on the count, which is never negative, does that),
\* only to keep the evaluation of long transcripts shallow.
MergeLoop(segments, lo, hi, locals, cfg) ==
    IF lo > hi THEN locals
    ELSE IF lo = hi THEN MergeStep(segments[lo], locals, cfg)
    ELSE LET mid == (lo + hi) \div 2
             first_half == MergeLoop(segments, lo, mid, locals, cfg)
         IN IF first_half.current_word_count >= 0
            THEN MergeLoop(segments, mid + 1, hi, first_half, cfg)
            ELSE first_half

\* _merge_small_segments, lines 146-187
merge_small_segments(segments, cfg) ==
    IF Len(segments) = 0 THEN <<>>
    ELSE LET last == MergeLoop(segments, 1, Len(segments),
                               [current_buffer |-> <<>>,
                                current_word_count |-> 0, merged |-> <<>>],
                               cfg)
         IN IF Len(last.current_buffer) > 0
            THEN Append(last.merged, merge_buffer(last.current_buffer))
            ELSE last.merged

\* mutant: chunks are numbered from 1
MakeChunkOneBased(segment, i, lang) ==
    [text |-> segment.text,
     start_ms |-> segment.offset,
     end_ms |-> segment.offset + segment.duration,
     duration_ms |-> segment.duration,
     chunk_index |-> i + 1,
     lang |-> IF segment.lang = "absent" THEN lang ELSE segment.lang]

\* chunk_supadata_transcript, lines 73-96: the chunk of the i-th merged
\* segment (i counted from 0)
MakeChunk(segment, i, lang) ==
    [text |-> segment.text,
     start_ms |-> segment.offset,
     end_ms |-> segment.offset + segment.duration,
     duration_ms |-> segment.duration,
     chunk_index |-> i,
     lang |-> IF segment.lang = "absent" THEN lang ELSE segment.lang]

\* mutant: the slice takes the word at its end index too
SliceEndInclusive(words, a, b) ==
    [k \in 1..(Min2(b + 1, Len(words)) - a) |-> words[a + k]]

\* words[a:b] of Python, 0-based and end-exclusive
Slice(words, a, b) == [k \in 1..(Min2(b, Len(words)) - a) |-> words[a + k]]

\* int(n / words_per_ms) with words_per_ms = 150 / (60 * 1000)
MsOfWords(n) == n * 400

\* end_word of one pass of the loop, line 118
EndWord(words, start_word, cfg) ==
    Min2(start_word + cfg.max_words, Len(words))

\* the TranscriptChunk one pass of the loop appends, lines 121-138
PlainChunk(words, start_word, chunk_index, lang, cfg) ==
    LET chunk_words == Slice(words, start_word,
                             EndWord(words, start_word, cfg))
        start_ms == IF start_word > 0 THEN MsOfWords(start_word) ELSE 0
        duration_ms == MsOfWords(Len(chunk_words))
    IN [text |-> Join([k \in 1..Len(chunk_words) |-> <<chunk_words[k]>>]),
        start_ms |-> start_ms,
        end_ms |-> start_ms + duration_ms,
        duration_ms |-> duration_ms,
        chunk_index |-> chunk_index,
        lang |-> lang]

\* mutant: the next window starts overlap_words before the end of a full
\* window, without the clamp
NextStartUnclamped(words, start_word, cfg) ==
    start_word + cfg.max_words - cfg.overlap_words

\* start_word of the next pass, line 141
NextStart(words, start_word, cfg) ==
    Max2(start_word + cfg.max_words - cfg.overlap_words,
         EndWord(words, start_word, cfg))

RECURSIVE PlainLoop(_, _, _, _, _, _)
\* the loop of _chunk_plain_text, lines 116-144
PlainLoop(words, start_word, chunk_index, chunks, lang, cfg) ==
    IF start_word >= Len(words) THEN chunks
    ELSE PlainLoop(words, NextStart(words, start_word, cfg), chunk_index + 1,
                   Append(chunks, PlainChunk(words, start_word, chunk_index,
                                             lang, cfg)),
                   lang, cfg)

\* _chunk_plain_text, lines 103-144
chunk_plain_text(text, lang, cfg) ==
    PlainLoop(Split(text), 0, 0, <<>>, lang, cfg)

\* chunk_supadata_transcript, lines 39-101
chunk_supadata_transcript(transcript_data, cfg) ==
    IF transcript_data.kind = "str"
    THEN chunk_plain_text(transcript_data.content, transcript_data.lang, cfg)
    ELSE IF Len(transcript_data.content) = 0 THEN <<>>
    ELSE LET merged_segments ==
                 merge_small_segments(transcript_data.content, cfg)
         IN [k \in 1..Len(merged_segments) |->
                MakeChunk(merged_segments[k], k - 1, transcript_data.lang)]

InitChunk ==
    /\ c_cfg \in ChunkerConfigs
    /\ c_in \in Transcripts
    /\ c_pc = "ready"
    /\ c_out = <<>>
    /\ LimiterIdle
    /\ RetryIdle
    /\ IngestIdle
    /\ BuilderIdle
    /\ PipelineIdle
    /\ PlainIdle
    /\ SingletonIdle
    /\ PairIdle

\* one call of chunk_supadata_transcript
Chunk ==
    /\ c_pc = "ready"
    /\ c_out' = chunk_supadata_transcript(c_in, c_cfg)
    /\ c_pc' = "done"
    /\ UNCHANGED <<c_cfg, c_in>>
    /\ UNCHANGED <<limiterVars, retryVars, ingestVars, builderVars,
                   pipelineVars, plainVars, singletonVars, pairVars>>

NextChunk == Chunk

SpecChunk == InitChunk /\ [][NextChunk]_vars

\* C9: the chunks of a segmented transcript carry chunk_index 0, 1, 2, ...
\* in output order, and end_ms - start_ms = duration_ms in every chunk.
C9_IndexAndTiming ==
    (c_pc = "done" /\ c_in.kind = "list") =>
        \A k \in 1..Len(c_out) :
            /\ c_out[k].chunk_index = k - 1
            /\ c_out[k].end_ms - c_out[k].start_ms = c_out[k].duration_ms

\* C9 witness: a segmented transcript gave at least two chunks, fewer chunks
\* than segments (some chunk is a merge of several segments).
C9_Witness ==
    /\ c_pc = "done"
    /\ c_in.kind = "list"
    /\ Len(c_out) >= 2
    /\ Len(c_out) < Len(c_in.content)

\* C10: every chunk made from segments with non-negative offset and duration
\* has duration_ms >= 0 and end_ms = start_ms + duration_ms.
C10_DurationNonNegative ==
    (c_pc = "done" /\ c_in.kind = "list") =>
        \A k \in 1..Len(c_out) :
            /\ c_out[k].duration_ms >= 0
            /\ c_out[k].end_ms = c_out[k].start_ms + c_out[k].duration_ms

\* the first n words and the last n words of a text
FirstWords(text, n) == SubSeq(Split(text), 1, Min2(n, word_count(text)))

LastWords(text, n) ==
    SubSeq(Split(text), Max2(word_count(text) - n, 0) + 1, word_count(text))

\* C11: every chunk of a plain-text transcript holds at most max_words
\* words.
C11_PlainChunkAtMostMaxWords ==
    (c_pc = "done" /\ c_in.kind = "str") =>
        \A k \in 1..Len(c_out) : word_count(c_out[k].text) <= c_cfg.max_words

\* C11 witness: a plain text longer than max_words gave several chunks, the
\* first of exactly max_words words and the last a shorter one.
C11_Witness ==
    /\ c_pc = "done"
    /\ c_in.kind = "str"
    /\ word_count(c_in.content) > c_cfg.max_words
    /\ Len(c_out) >= 3
    /\ word_count(c_out[1].text) = c_cfg.max_words
    /\ word_count(c_out[Len(c_out)].text) < c_cfg.max_words

\* C12 as stated (refuted by the code): in a plain-text transcript every
\* chunk but the final one starts overlap_words words before the end of the
\* chunk before it: its first overlap_words words are the last
\* overlap_words words of the previous chunk, and its start is the previous
\* start + max_words - overlap_words.
C12_ConsecutiveChunksOverlap ==
    (c_pc = "done" /\ c_in.kind = "str") =>
        \A k \in 1..(Len(c_out) - 2) :
            /\ FirstWords(c_out[k + 1].text, c_cfg.overlap_words)
                   = LastWords(c_out[k].text, c_cfg.overlap_words)
            /\ c_out[k + 1].start_ms
                   = c_out[k].start_ms
                       + MsOfWords(c_cfg.max_words - c_cfg.overlap_words)

\* the segments of a segmented transcript
Segs == c_in.content

\* the number of words in the texts of the segments a..b
WordsBetween(a, b) ==
    Cardinality(UNION {{<<j, i>> : i \in {i \in DOMAIN Segs[j].text :
                                              Segs[j].text[i] # " "}} :
                       j \in a..b})

\* the text's last word ends a sentence
EndsSentence(text) ==
    \E i \in DOMAIN text :
        /\ text[i] \in BreakWords
        /\ \A k \in (i + 1)..Len(text) : text[k] = " "

\* the last cut of `cuts` below segment i, 0 when there is none
CutBefore(cuts, i) ==
    IF \E c \in cuts : c < i
    THEN CHOOSE c \in cuts : c < i /\ \A d \in cuts : d < i => d <= c
    ELSE 0

\* the last segment and the first segment of the k-th group of the
\* partition that is cut after the segments in `cuts`
GroupEnd(cuts, k) ==
    CHOOSE e \in cuts : Cardinality({c \in cuts : c <= e}) = k

GroupStart(cuts, k) == CutBefore(cuts, GroupEnd(cuts, k)) + 1

\* the texts of the segments a..b joined with single spaces
GroupText(a, b) == Join([j \in 1..(b - a + 1) |-> Segs[a + j - 1].text])

\* at segment i the words accumulated since the last cut reach min_words or
\* max_words, or the segment ends a sentence
FlushCondition(cuts, i) ==
    LET count == WordsBetween(CutBefore(cuts, i) + 1, i)
    IN \/ count >= c_cfg.min_words
       \/ count >= c_cfg.max_words
       \/ EndsSentence(Segs[i].text)

\* the cuts of the flush rule: the segments at which the condition holds,
\* and the last segment
FlushCuts ==
    LET n == Len(Segs)
        flushes == CHOOSE F \in SUBSET (1..n) :
                       \A i \in 1..n : i \in F <=> FlushCondition(F, i)
    IN IF n = 0 THEN {} ELSE flushes \cup {n}

C20_ChunksPartitionSegments ==
    (c_pc = "done" /\ c_in.kind = "list") =>
        \E inner \in SUBSET (1..(Len(Segs) - 1)) :
            LET cuts == IF Len(Segs) = 0 THEN {} ELSE inner \cup {Len(Segs)}
            IN /\ Len(c_out) = Cardinality(cuts)
               /\ \A k \in 1..Len(c_out) :
                      LET a == GroupStart(cuts, k)
                          b == GroupEnd(cuts, k)
                      IN /\ c_out[k].text = GroupText(a, b)
                         /\ c_out[k].start_ms = Segs[a].offset
                         /\ c_out[k].end_ms
                                = Segs[b].offset + Segs[b].duration

\* C20 witness: a segment of more words than max_words became a chunk of its
\* own, whole, and two segments with a duration were merged into the chunk
\* after it.
C20_Witness ==
    /\ c_pc = "done"
    /\ c_in.kind = "list"
    /\ Len(Segs) = 3
    /\ Len(c_out) = 2
    /\ WordsBetween(1, 1) > c_cfg.max_words
    /\ c_out[1].text = Segs[1].text
    /\ c_out[2].text = GroupText(2, 3)
    /\ Segs[3].duration > 0
    /\ c_out[2].end_ms = Segs[3].offset + Segs[3].duration

(***************************************************************************)
(*          ChunkMetadataBuilder and QdrantVectorDB ingestion              *)
(* A string is a sequence of characters.  MD5 is taken to be free of       *)
(* collisions: the UUID made from the digest of a string is modelled as    *)
(* the record [md5_of |-> string].                                         *)
(***************************************************************************)

\* ---- bounds ----
MaxBatches == 2
MaxRuns == 2

\* ---- program constants ----
BatchSize == 100
DefaultMinWords == 120
DefaultMaxWords == 300
DefaultOverlapWords == 20
PadWidth == 4

Digit(d) == <<"0", "1", "2", "3", "4", "5", "6", "7", "8", "9">>[d + 1]

RECURSIVE Decimal(_)
\* str(n) for n >= 0
Decimal(n) ==
    IF n < 10 THEN <<Digit(n)>> ELSE Append(Decimal(n \div 10), Digit(n % 10))

RECURSIVE ZeroPadTruncating(_, _)
\* mutant: the field is always `width` characters, a longer number loses its
\* leading digits
ZeroPadTruncating(str, width) ==
    IF Len(str) > width THEN SubSeq(str, Len(str) - width + 1, Len(str))
    ELSE IF Len(str) = width THEN str
    ELSE ZeroPadTruncating(<<"0">> \o str, width)

RECURSIVE ZeroPad(_, _)
\* left-pad with "0" to the width; a longer string is left as it is
ZeroPad(str, width) ==
    IF Len(str) >= width THEN str ELSE ZeroPad(<<"0">> \o str, width)

\* mutant: the field holds the last four digits of the index
Format04dLastFour(chunk_index) ==
    ZeroPad(Decimal(chunk_index % 10000), PadWidth)

\* f"{chunk_index:04d}"
Format04d(chunk_index) == ZeroPad(Decimal(chunk_index), PadWidth)

\* f"{channel_id}:{video_id}:{chunk_index:04d}", lines 259 and 300
HierarchicalString(channel_id, video_id, chunk_index) ==
    channel_id \o <<":">> \o video_id \o <<":">> \o Format04d(chunk_index)

\* f"{channel_id}:{video_id}:{chunk.chunk_index:04d}", line 259
PayloadHierarchicalId(channel_id, video_id, chunk_index) ==
    channel_id \o <<":">> \o video_id \o <<":">> \o Format04d(chunk_index)

\* mutant: the identity is made with the interpreter's own hash, which is
\* seeded anew in every run
build_hierarchical_id_seeded(channel_id, video_id, chunk_index) ==
    [md5_of |-> HierarchicalString(channel_id, video_id, chunk_index),
     seed |-> h_seed]

\* build_hierarchical_id, lines 293-308
build_hierarchical_id(channel_id, video_id, chunk_index) ==
    [md5_of |-> HierarchicalString(channel_id, video_id, chunk_index)]

\* build_chunk_payload, lines 244-291 (the fields the store is queried by
\* and the chunk's position)
build_chunk_payload(chunk, channel_id, video_id) ==
    [channel_id |-> channel_id,
     video_id |-> video_id,
     hierarchical_id |->
         PayloadHierarchicalId(channel_id, video_id, chunk.chunk_index),
     chunk_index |-> chunk.chunk_index,
     start_ms |-> chunk.start_ms,
     end_ms |-> chunk.end_ms,
     duration_ms |-> chunk.duration_ms,
     type |-> "transcript_chunk"]

\* create_chunks_from_supadata_response, lines 311-361
create_chunks_from_supadata_response(transcript_response, channel_id, video_id, min_words, max_words) ==
    LET chunks == chunk_supadata_transcript(
                      transcript_response,
                      [min_words |-> min_words, max_words |-> max_words,
                       overlap_words |-> DefaultOverlapWords])
    IN [k \in 1..Len(chunks) |->
           [point_id |-> build_hierarchical_id(channel_id, video_id,
                                               chunks[k].chunk_index),
            payload |-> build_chunk_payload(chunks[k], channel_id, video_id),
            chunk_text |-> chunks[k].text]]

\* a transcript of n one-word segments, each a sentence of its own
Sentences(n) ==
    [kind |-> "list",
     content |-> [k \in 1..n |-> [text |-> <<"ok.">>, offset |-> 5 * (k - 1),
                                  duration |-> 5, lang |-> "absent"]],
     lang |-> "fr"]

\* the transcripts ingested: none, one and two chunks, and one chunk more
\* than fills the batches before the last
IngestTranscripts ==
    {Sentences(n) : n \in {0, 1, 2, (MaxBatches - 1) * BatchSize + 1}}
    \cup {[kind |-> "str", content |-> PlainText(3), lang |-> "fr"]}

ChannelId == <<"U", "C", "a">>
VideoId == <<"v", "1">>
OtherVideoId == <<"v", "2">>

\* what the collection may hold before the first call: nothing, or a chunk
\* of another video
InitialStores ==
    {{},
     {[id |-> build_hierarchical_id(ChannelId, OtherVideoId, 0),
       payload |-> build_chunk_payload(
                       [chunk_index |-> 0, start_ms |-> 0, end_ms |-> 5,
                        duration_ms |-> 5], ChannelId, OtherVideoId)]}}

\* mutant: a point is added beside the point that has its id
UpsertKeepsBoth(st, batch) == st \cup {batch[k] : k \in 1..Len(batch)}

\* client.upsert: points are keyed by id, an existing id is overwritten
Upsert(st, batch) ==
    LET ids == {batch[k].id : k \in 1..Len(batch)}
    IN {p \in st : p.id \notin ids} \cup {batch[k] : k \in 1..Len(batch)}

\* mutant: the batch is the whole rest of the list
BatchUnbounded(points, i) == [k \in 1..(Len(points) - i) |-> points[i + k]]

\* points[i : i + batch_size], as a sequence
Batch(points, i) ==
    [k \in 1..(Min2(i + BatchSize, Len(points)) - i) |-> points[i + k]]

\* mutant: the existence query never finds a point
ScrollFindsNothing(st, video_id) == FALSE

\* mutant: the existence query asks for more points than one batch holds
ScrollFindsMoreThanABatch(st, video_id) ==
    Cardinality({p \in st : p.payload.video_id = video_id}) > BatchSize

\* video_chunks_exist, lines 535-546: the scroll filtered by video_id returns
\* a point
ScrollFinds(st, video_id) == \E p \in st : p.payload.video_id = video_id

\* the transcripts two concurrent tasks ingest: one chunk, and one chunk more than a
\* batch holds
PairTranscripts == {Sentences(1), Sentences(BatchSize + 1)}

\* the arguments add_transcript_chunks is called with
IngestInputs ==
    [transcript_response : IngestTranscripts \cup PairTranscripts,
     channel_id : {ChannelId}, video_id : {VideoId},
     min_words : {DefaultMinWords}, max_words : {DefaultMaxWords}]

\* lines 480-492: what create_chunks_from_supadata_response returns for
\* each combination of arguments, worked out once
ChunkTable ==
    [transcript_response \in IngestTranscripts \cup PairTranscripts,
     channel_id \in {ChannelId}, video_id \in {VideoId},
     min_words \in {DefaultMinWords}, max_words \in {DefaultMaxWords} |->
        create_chunks_from_supadata_response(
            transcript_response, channel_id, video_id, min_words, max_words)]

\* lines 480-492: the chunk data of one call, from the call's five arguments
ChunkData(in) == ChunkTable[in.transcript_response, in.channel_id, in.video_id, in.min_words, in.max_words]

InitIngest ==
    /\ store \in InitialStores
    /\ g_in \in IngestInputs
    /\ g_in.transcript_response \in IngestTranscripts
    /\ g_pc = "check"
    /\ g_points = <<>>
    /\ g_i = 0
    /\ g_added = 0
    /\ g_ret = <<>>
    /\ g_scan = <<>>
    /\ g_snap = <<>>
    /\ g_batches = <<>>
    /\ g_embeds = 0
    /\ LimiterIdle
    /\ RetryIdle
    /\ ChunkIdle
    /\ BuilderIdle
    /\ PipelineIdle
    /\ PlainIdle
    /\ SingletonIdle
    /\ PairIdle

\* the call returns `value`, the store being left as it is
Return(value) ==
    /\ g_ret' = Append(g_ret, value)
    /\ g_snap' = Append(g_snap, store)
    /\ g_pc' = "done"
    /\ g_points' = <<>>
    /\ g_i' = 0
    /\ g_added' = 0

\* lines 476-478 with video_chunks_exist, lines 532-553: the scroll answers
CheckExists ==
    /\ g_pc = "check"
    /\ IF ScrollFinds(store, g_in.video_id)
       THEN /\ g_scan' = Append(g_scan, "found")
            /\ Return(0)
       ELSE /\ g_scan' = Append(g_scan, "absent")
            /\ g_pc' = "chunk"
            /\ UNCHANGED <<g_points, g_i, g_added, g_ret, g_snap>>
    /\ UNCHANGED <<store, g_in, g_batches, g_embeds>>
    /\ UNCHANGED <<limiterVars, retryVars, chunkVars, builderVars,
                   pipelineVars, plainVars, singletonVars, pairVars>>

\* lines 476 and 551-553: the scroll raises, video_chunks_exist returns False
CheckExistsFails ==
    /\ g_pc = "check"
    /\ g_scan' = Append(g_scan, "error")
    /\ g_pc' = "chunk"
    /\ UNCHANGED <<store, g_in, g_points, g_i, g_added, g_ret, g_snap,
                   g_batches, g_embeds>>
    /\ UNCHANGED <<limiterVars, retryVars, chunkVars, builderVars,
                   pipelineVars, plainVars, singletonVars, pairVars>>

\* lines 480-496: chunk the transcript and build ids and payloads
CreateChunks ==
    /\ g_pc = "chunk"
    /\ LET chunk_data == ChunkData(g_in)
       IN IF Len(chunk_data) = 0
          THEN Return(0)
          ELSE /\ g_points' = [k \in 1..Len(chunk_data) |->
                                  [id |-> chunk_data[k].point_id,
                                   payload |-> chunk_data[k].payload]]
               /\ g_pc' = "embed"
               /\ UNCHANGED <<g_i, g_added, g_ret, g_snap>>
    /\ UNCHANGED <<store, g_in, g_scan, g_batches, g_embeds>>
    /\ UNCHANGED <<limiterVars, retryVars, chunkVars, builderVars,
                   pipelineVars, plainVars, singletonVars, pairVars>>

\* lines 498-512: the embeddings are computed and the points are built
Embed ==
    /\ g_pc = "embed"
    /\ g_pc' = "upsert"
    /\ g_i' = 0
    /\ g_added' = 0
    /\ g_embeds' = g_embeds + 1
    /\ UNCHANGED <<store, g_in, g_points, g_ret, g_scan, g_snap, g_batches>>
    /\ UNCHANGED <<limiterVars, retryVars, chunkVars, builderVars,
                   pipelineVars, plainVars, singletonVars, pairVars>>

\* lines 500 and 528-530: generate_embeddings_batch raises, the call
\* returns 0
EmbedFails ==
    /\ g_pc = "embed"
    /\ Return(0)
    /\ g_embeds' = g_embeds + 1
    /\ UNCHANGED <<store, g_in, g_scan, g_batches>>
    /\ UNCHANGED <<limiterVars, retryVars, chunkVars, builderVars,
                   pipelineVars, plainVars, singletonVars, pairVars>>

\* lines 514-520: the upsert of one batch succeeds
UpsertBatch ==
    /\ g_pc = "upsert"
    /\ g_i < Len(g_points)
    /\ store' = Upsert(store, Batch(g_points, g_i))
    /\ g_added' = g_added + Len(Batch(g_points, g_i))
    /\ g_i' = g_i + BatchSize
    /\ g_batches' = Append(g_batches, [points |-> Batch(g_points, g_i),
                                        ok |-> TRUE])
    /\ UNCHANGED <<g_in, g_pc, g_points, g_ret, g_scan, g_snap, g_embeds>>
    /\ UNCHANGED <<limiterVars, retryVars, chunkVars, builderVars,
                   pipelineVars, plainVars, singletonVars, pairVars>>

\* lines 514-523: the upsert of one batch raises and the batch is skipped
UpsertBatchFails ==
    /\ g_pc = "upsert"
    /\ g_i < Len(g_points)
    /\ g_i' = g_i + BatchSize
    /\ g_batches' = Append(g_batches, [points |-> Batch(g_points, g_i),
                                        ok |-> FALSE])
    /\ UNCHANGED <<store, g_in, g_pc, g_points, g_added, g_ret, g_scan,
                   g_snap, g_embeds>>
    /\ UNCHANGED <<limiterVars, retryVars, chunkVars, builderVars,
                   pipelineVars, plainVars, singletonVars, pairVars>>

\* lines 525-526: after the last batch, return added_count
ReturnAdded ==
    /\ g_pc = "upsert"
    /\ g_i >= Len(g_points)
    /\ Return(g_added)
    /\ UNCHANGED <<store, g_in, g_scan, g_batches, g_embeds>>
    /\ UNCHANGED <<limiterVars, retryVars, chunkVars, builderVars,
                   pipelineVars, plainVars, singletonVars, pairVars>>

\* the caller runs add_transcript_chunks again with the same arguments
RunAgain ==
    /\ g_pc = "done"
    /\ Len(g_ret) < MaxRuns
    /\ g_pc' = "check"
    /\ g_batches' = <<>>
    /\ g_embeds' = 0
    /\ UNCHANGED <<store, g_in, g_points, g_i, g_added, g_ret, g_scan,
                   g_snap>>
    /\ UNCHANGED <<limiterVars, retryVars, chunkVars, builderVars,
                   pipelineVars, plainVars, singletonVars, pairVars>>

NextIngest ==
    \/ CheckExists
    \/ CheckExistsFails
    \/ CreateChunks
    \/ Embed
    \/ EmbedFails
    \/ UpsertBatch
    \/ UpsertBatchFails
    \/ ReturnAdded
    \/ RunAgain

SpecIngest == InitIngest /\ [][NextIngest]_vars

\* add_document, lines 156-177: the point written for a processed video,
\* its id the raw video id; of the payload, the fields the existence
\* queries can tell apart
SummaryPoint(video_id) ==
    [id |-> [raw |-> video_id],
     payload |-> [video_id |-> video_id, type |-> "video_summary"]]

\* document_exists, lines 125-134: the scroll filtered by video_id returns a
\* point
DocumentExists(st, video_id) == \E p \in st : p.payload.video_id = video_id

\* add_document, lines 140-180, between two calls of add_transcript_chunks:
\* unless a point with the video_id is found, the summary point is upserted
\* (a call whose embedding or upsert raises leaves the store alone)
AddDocument ==
    /\ g_pc \in {"check", "done"}
    /\ store' = IF DocumentExists(store, g_in.video_id)
                THEN store
                ELSE Upsert(store, <<SummaryPoint(g_in.video_id)>>)
    /\ UNCHANGED <<g_in, g_pc, g_points, g_i, g_added, g_ret, g_scan,
                   g_snap, g_batches, g_embeds>>
    /\ UNCHANGED <<limiterVars, retryVars, chunkVars, builderVars,
                   pipelineVars, plainVars, singletonVars, pairVars>>

\* add_document with lines 135-137: the scroll of document_exists raises,
\* which reads as `not there`, and the summary point is upserted
AddDocumentQueryFails ==
    /\ g_pc \in {"check", "done"}
    /\ store' = Upsert(store, <<SummaryPoint(g_in.video_id)>>)
    /\ UNCHANGED <<g_in, g_pc, g_points, g_i, g_added, g_ret, g_scan,
                   g_snap, g_batches, g_embeds>>
    /\ UNCHANGED <<limiterVars, retryVars, chunkVars, builderVars,
                   pipelineVars, plainVars, singletonVars, pairVars>>

\* ---- bounds ----
MaxCollectionSegments == 3

\* the collection is written by add_document and add_transcript_chunks,
\* for transcripts of a few segments
InitCollection ==
    /\ InitIngest
    /\ Len(g_in.transcript_response.content) <= MaxCollectionSegments

NextCollection ==
    \/ NextIngest
    \/ AddDocument
    \/ AddDocumentQueryFails

SpecCollection == InitCollection /\ [][NextCollection]_vars

\* the identities of the points of a store
PointIds(st) == {p.id : p \in st}

\* the store holds a point tagged with the video
HoldsVideo(st) == \E p \in st : p.payload.video_id = g_in.video_id

ExpectedPoints ==
    LET chunk_data == ChunkData(g_in)
    IN [k \in 1..Len(chunk_data) |-> [id |-> chunk_data[k].point_id,
                                      payload |-> chunk_data[k].payload]]

RECURSIVE SucceededPoints(_)
\* the number of points in the batches of a log whose upsert succeeded
SucceededPoints(batches) ==
    IF Len(batches) = 0 THEN 0
    ELSE (IF batches[1].ok THEN Len(batches[1].points) ELSE 0)
            + SucceededPoints(Tail(batches))

\* the value the call that has just finished returned
LastReturn == g_ret[Len(g_ret)]

\* C15: the j-th batch upserted is the points (j-1)*100+1 .. j*100 of the
\* list, in chunk order, at most 100 of them; a failed batch does not stop
\* the loop, so a call that reached the loop has tried every batch when it
\* returns, and it returns the number of points in the batches that
\* succeeded.
C15_BatchesAndCount ==
    LET expected == ExpectedPoints
    IN /\ \A j \in 1..Len(g_batches) :
              /\ Len(g_batches[j].points) \in 1..BatchSize
              /\ g_batches[j].points
                     = SubSeq(expected, (j - 1) * BatchSize + 1,
                              Min2(j * BatchSize, Len(expected)))
       /\ (g_pc = "done" /\ Len(g_batches) > 0) =>
              /\ (Len(g_batches) - 1) * BatchSize < Len(expected)
              /\ Len(expected) <= Len(g_batches) * BatchSize
              /\ LastReturn = SucceededPoints(g_batches)

\* C15 witness: the upsert of the first batch failed, the second batch was
\* upserted all the same and the call returned the size of the second.
C15_Witness ==
    /\ g_pc = "done"
    /\ Len(g_batches) = 2
    /\ ~g_batches[1].ok
    /\ g_batches[2].ok
    /\ LastReturn = Len(g_batches[2].points)
    /\ LastReturn > 0

\* C16 as stated (refuted by the code): a call in which the upsert of every
\* batch failed does not end like a call that had nothing to do (video
\* already ingested, or no chunks), which returns 0.
C16_TotalFailureReported ==
    (/\ g_pc = "done"
     /\ Len(g_batches) > 0
     /\ \A j \in 1..Len(g_batches) : ~g_batches[j].ok)
    => LastReturn # 0

C23_FailedStepRetried ==
    /\ \A k \in 1..Len(g_batches) :
          (/\ ~g_batches[k].ok
           /\ k = 1 \/ g_batches[k - 1].points # g_batches[k].points)
          => IF k < Len(g_batches)
             THEN g_batches[k + 1].points = g_batches[k].points
             ELSE g_pc = "upsert" /\ Batch(g_points, g_i) = g_batches[k].points
    /\ (g_pc = "done" /\ g_embeds > 0 /\ g_batches = <<>>) => g_embeds >= 2

\* C29 as stated (refuted by the code): a call of add_transcript_chunks
\* whose existence query found something, so that it returned 0 without
\* upserting, found a transcript-chunk point of the video in the store.
C29_SkipOnlyForChunks ==
    \A k \in 1..Len(g_ret) :
        g_scan[k] = "found" =>
            \E p \in g_snap[k] :
                /\ p.payload.video_id = g_in.video_id
                /\ p.payload.type = "transcript_chunk"

(***************************************************************************)
(*                       ChunkMetadataBuilder alone                        *)
(* The identity and the payload of single chunks, built at different times *)
(* and in different runs of the interpreter.                               *)
(***************************************************************************)

\* ---- bounds ----
MaxIdCalls == 2
MaxIdTicks == 1
MaxChunkIndex == 123456

BuilderChannelIds == {ChannelId, <<"U", "C", "a", "b", "c">>}
BuilderVideoIds == {VideoId, <<"v", "i", "d", "1", "2", "3">>}
ChunkIndexes == {0, 7, 999, 9999, 10000, MaxChunkIndex}

InitBuilder ==
    /\ h_now = 0
    /\ h_seed = 0
    /\ h_calls = <<>>
    /\ LimiterIdle
    /\ RetryIdle
    /\ ChunkIdle
    /\ IngestIdle
    /\ PipelineIdle
    /\ PlainIdle
    /\ SingletonIdle
    /\ PairIdle

\* one pass of the loop of create_chunks_from_supadata_response, lines
\* 339-358: the identity and the payload of one chunk, and the created_at the
\* payload is stamped with (line 279)
BuildChunkData(channel_id, video_id, chunk_index) ==
    /\ Len(h_calls) < MaxIdCalls
    /\ h_calls' = Append(h_calls,
           [channel_id |-> channel_id,
            video_id |-> video_id,
            chunk_index |-> chunk_index,
            point_id |-> build_hierarchical_id(channel_id, video_id,
                                               chunk_index),
            payload |-> build_chunk_payload(
                            [chunk_index |-> chunk_index, start_ms |-> 0,
                             end_ms |-> 0, duration_ms |-> 0],
                            channel_id, video_id),
            created_at |-> h_now,
            run |-> h_seed])
    /\ UNCHANGED <<h_now, h_seed>>
    /\ UNCHANGED <<limiterVars, retryVars, chunkVars, ingestVars,
                   pipelineVars, plainVars, singletonVars, pairVars>>

\* time passes between two calls
UtcTick ==
    /\ h_now < MaxIdTicks
    /\ h_now' = h_now + 1
    /\ UNCHANGED <<h_seed, h_calls>>
    /\ UNCHANGED <<limiterVars, retryVars, chunkVars, ingestVars,
                   pipelineVars, plainVars, singletonVars, pairVars>>

\* the pipeline is started again in a new interpreter
Restart ==
    /\ h_seed = 0
    /\ h_seed' = 1
    /\ UNCHANGED <<h_now, h_calls>>
    /\ UNCHANGED <<limiterVars, retryVars, chunkVars, ingestVars,
                   pipelineVars, plainVars, singletonVars, pairVars>>

NextBuilder ==
    \/ \E channel_id \in BuilderChannelIds, video_id \in BuilderVideoIds,
          chunk_index \in ChunkIndexes :
           BuildChunkData(channel_id, video_id, chunk_index)
    \/ UtcTick
    \/ Restart

SpecBuilder == InitBuilder /\ [][NextBuilder]_vars

DigitChars == {Digit(d) : d \in 0..9}

DigitValue(c) == CHOOSE d \in 0..9 : Digit(d) = c

RECURSIVE DecimalValue(_)
\* the number a string of digits denotes
DecimalValue(str) ==
    IF Len(str) = 0 THEN 0
    ELSE 10 * DecimalValue(SubSeq(str, 1, Len(str) - 1))
            + DigitValue(str[Len(str)])

\* C13: the hierarchical id in the payload is channel_id, ":", video_id, ":"
\* and a field of decimal digits that denotes chunk_index; the field is 4
\* characters wide for an index below 10000 and just as wide as the number
\* (no leading zero, no digit lost) from 10000 on; the point identity is the
\* digest of that same string; ("UCabc", "vid123", 7) gives
\* "UCabc:vid123:0007".
C13_HierarchicalIdFormat ==
    \A k \in 1..Len(h_calls) :
        LET c == h_calls[k]
            prefix == c.channel_id \o <<":">> \o c.video_id \o <<":">>
            idstr == c.payload.hierarchical_id
            field == SubSeq(idstr, Len(prefix) + 1, Len(idstr))
        IN /\ Len(idstr) > Len(prefix)
           /\ SubSeq(idstr, 1, Len(prefix)) = prefix
           /\ \A i \in 1..Len(field) : field[i] \in DigitChars
           /\ DecimalValue(field) = c.chunk_index
           /\ IF c.chunk_index < Pow(10, PadWidth)
              THEN Len(field) = PadWidth
              ELSE /\ Pow(10, Len(field) - 1) <= c.chunk_index
                   /\ c.chunk_index < Pow(10, Len(field))
           /\ c.point_id = [md5_of |-> idstr]
           /\ (/\ c.channel_id = <<"U", "C", "a", "b", "c">>
               /\ c.video_id = <<"v", "i", "d", "1", "2", "3">>
               /\ c.chunk_index = 7)
              => idstr = <<"U", "C", "a", "b", "c", ":", "v", "i", "d", "1",
                           "2", "3", ":", "0", "0", "0", "7">>

\* C13 witness: the id of chunk 7 of ("UCabc", "vid123") and the id of a
\* chunk with an index of more than 4 digits have been built.
C13_Witness ==
    /\ Len(h_calls) = 2
    /\ h_calls[1].channel_id = <<"U", "C", "a", "b", "c">>
    /\ h_calls[1].video_id = <<"v", "i", "d", "1", "2", "3">>
    /\ h_calls[1].chunk_index = 7
    /\ h_calls[2].chunk_index >= 10000

\* the arguments of a logged call
Triple(c) == <<c.channel_id, c.video_id, c.chunk_index>>

C28_DistinctIndicesDistinctIds ==
    \A i, j \in 1..Len(h_calls) :
        (/\ h_calls[i].channel_id = h_calls[j].channel_id
         /\ h_calls[i].video_id = h_calls[j].video_id
         /\ h_calls[i].chunk_index # h_calls[j].chunk_index)
        => /\ h_calls[i].payload.hierarchical_id
                 # h_calls[j].payload.hierarchical_id
           /\ h_calls[i].point_id # h_calls[j].point_id

\* C28 witness: chunks 0 and 10000 of one video were built.
C28_Witness ==
    \E i, j \in 1..Len(h_calls) :
        /\ h_calls[i].channel_id = h_calls[j].channel_id
        /\ h_calls[i].video_id = h_calls[j].video_id
        /\ h_calls[i].chunk_index = 0
        /\ h_calls[j].chunk_index = 10000
        /\ h_calls[i].point_id # h_calls[j].point_id

(***************************************************************************)
(*        SummarizationPipeline: the loop over a channel's videos          *)
(* process_channel from the point where `videos` has been fetched, with    *)
(* process_video inlined.  What the services answer (the store, Supadata,  *)
(* Gemini) is chosen freely at each call.                                  *)
(***************************************************************************)

\* ---- bounds ----
MaxVideos == 3

\* the lists get_recent_videos may have returned
VideoLists == {[k \in 1..n |-> <<"v", Digit(k)>>] : n \in 0..MaxVideos}

\* ProcessedVideo(...), models.py lines 51-60
ProcessedVideo(video_id, summary, processing_status, error_message) ==
    [video_id |-> video_id, summary |-> summary,
     processing_status |-> processing_status,
     error_message |-> error_message]

\* the video process_video is working on
CurrentVideo == p_videos[p_i + 1]

InitPipeline ==
    /\ p_videos \in VideoLists
    /\ p_i = 0
    /\ p_pc = "loop"
    /\ p_invoked = <<>>
    /\ p_result = <<>>
    /\ p_processed = <<>>
    /\ LimiterIdle
    /\ RetryIdle
    /\ ChunkIdle
    /\ IngestIdle
    /\ BuilderIdle
    /\ PlainIdle
    /\ SingletonIdle
    /\ PairIdle

\* process_video returns `processed_video` to the loop
Returns(processed_video) ==
    /\ p_result' = <<processed_video>>
    /\ p_pc' = "returned"

\* mutant: the exception leaves process_video and process_channel
RaisesUncaught(e) ==
    /\ p_result' = <<>>
    /\ p_pc' = "aborted"

\* process_video lines 641-650: an exception raised in the try block is
\* caught and returned as a ProcessedVideo with status "error"
Raises(e) == Returns(ProcessedVideo(CurrentVideo, "", "error", e))

\* process_channel lines 524-531: the loop takes the next video and calls
\* process_video
LoopEnter ==
    /\ p_pc = "loop"
    /\ p_i < Len(p_videos)
    /\ p_invoked' = Append(p_invoked, CurrentVideo)
    /\ p_pc' = "exists"
    /\ UNCHANGED <<p_videos, p_i, p_result, p_processed>>
    /\ UNCHANGED <<limiterVars, retryVars, chunkVars, ingestVars, builderVars,
                   plainVars, singletonVars, pairVars>>

\* process_video lines 566-575: video_chunks_exist answers (it returns False
\* when its query fails)
VideoChunksExist ==
    /\ p_pc = "exists"
    /\ \E exists \in BOOLEAN :
           IF exists
           THEN Returns(ProcessedVideo(CurrentVideo, "Already processed",
                                       "completed", ""))
           ELSE p_pc' = "extract" /\ UNCHANGED p_result
    /\ UNCHANGED <<p_videos, p_i, p_invoked, p_processed>>
    /\ UNCHANGED <<limiterVars, retryVars, chunkVars, ingestVars, builderVars,
                   plainVars, singletonVars, pairVars>>

\* process_video lines 576-587: extract_transcript returns a transcript or
\* None
ExtractTranscript ==
    /\ p_pc = "extract"
    /\ \E transcript \in {"None", "text"} :
           IF transcript = "None"
           THEN Returns(ProcessedVideo(CurrentVideo, "", "failed",
                                       "No transcript available"))
           ELSE p_pc' = "summarize" /\ UNCHANGED p_result
    /\ UNCHANGED <<p_videos, p_i, p_invoked, p_processed>>
    /\ UNCHANGED <<limiterVars, retryVars, chunkVars, ingestVars, builderVars,
                   plainVars, singletonVars, pairVars>>

\* process_video lines 589-600: chunk_and_summarize returns a summary or
\* None, or raises what generate_content raised
Summarize ==
    /\ p_pc = "summarize"
    /\ \E summary \in {"None", "text", "raises"} :
           IF summary = "raises" THEN Raises("Exception")
           ELSE IF summary = "None"
           THEN Returns(ProcessedVideo(CurrentVideo, "", "failed",
                                       "Summary generation failed"))
           ELSE p_pc' = "response" /\ UNCHANGED p_result
    /\ UNCHANGED <<p_videos, p_i, p_invoked, p_processed>>
    /\ UNCHANGED <<limiterVars, retryVars, chunkVars, ingestVars, builderVars,
                   plainVars, singletonVars, pairVars>>

\* process_video lines 603-608: self._get_supadata_transcript_response is
\* looked up on the pipeline, which has no such method (it is defined on
\* TranscriptExtractor, line 241): the lookup raises AttributeError
GetTranscriptResponse ==
    /\ p_pc = "response"
    /\ Raises("AttributeError")
    /\ UNCHANGED <<p_videos, p_i, p_invoked, p_processed>>
    /\ UNCHANGED <<limiterVars, retryVars, chunkVars, ingestVars, builderVars,
                   plainVars, singletonVars, pairVars>>

\* process_channel lines 531-536: the result is appended and the loop sleeps
\* 2 s before the next video
AppendAndSleep ==
    /\ p_pc = "returned"
    /\ p_processed' = Append(p_processed, p_result[1])
    /\ p_result' = <<>>
    /\ p_i' = p_i + 1
    /\ p_pc' = "loop"
    /\ UNCHANGED <<p_videos, p_invoked>>
    /\ UNCHANGED <<limiterVars, retryVars, chunkVars, ingestVars, builderVars,
                   plainVars, singletonVars, pairVars>>

\* process_channel lines 538-544: the list is exhausted, processed_videos is
\* returned
LoopExit ==
    /\ p_pc = "loop"
    /\ p_i = Len(p_videos)
    /\ p_pc' = "done"
    /\ UNCHANGED <<p_videos, p_i, p_invoked, p_result, p_processed>>
    /\ UNCHANGED <<limiterVars, retryVars, chunkVars, ingestVars, builderVars,
                   plainVars, singletonVars, pairVars>>

NextPipeline ==
    \/ LoopEnter
    \/ VideoChunksExist
    \/ ExtractTranscript
    \/ Summarize
    \/ GetTranscriptResponse
    \/ AppendAndSleep
    \/ LoopExit

\* the loop is sequential code whose calls return or raise and whose sleep
\* ends: a step that can be taken is taken
SpecPipeline ==
    InitPipeline /\ [][NextPipeline]_vars /\ WF_vars(NextPipeline)

\* C18: the run over the list comes to its end, and at its end process_video
\* has been called on every video of the list, in order, whatever became of
\* the videos before it; every call gave one ProcessedVideo, whose status is
\* "failed" or "error" when the video failed (its error_message says how)
\* and "completed" otherwise.
C18_EveryVideoProcessed ==
    /\ <>(p_pc = "done")
    /\ [](p_pc = "done" =>
             /\ p_invoked = p_videos
             /\ Len(p_processed) = Len(p_videos)
             /\ \A k \in 1..Len(p_videos) :
                    /\ p_processed[k].video_id = p_videos[k]
                    /\ IF p_processed[k].error_message = ""
                       THEN p_processed[k].processing_status = "completed"
                       ELSE p_processed[k].processing_status
                               \in {"failed", "error"})

\* C18 witness: the first video ended with status "error", the second with
\* "failed", and the third was processed all the same.
C18_Witness ==
    /\ p_pc = "done"
    /\ Len(p_videos) = 3
    /\ p_processed[1].processing_status = "error"
    /\ p_processed[2].processing_status = "failed"
    /\ p_processed[3].processing_status = "completed"
    /\ p_invoked[3] = p_videos[3]

(***************************************************************************)
(*            TranscriptChunker._chunk_plain_text, step by step            *)
(* The windowing loop with one action per pass, for every window size and  *)
(* every overlap up to one more than the largest window.                   *)
(***************************************************************************)

\* ---- bounds ----
MaxWindow == 3

\* max_words >= 1 and overlap_words >= 0, overlap_words >= max_words
\* included
PlainConfigs ==
    [min_words : {1}, max_words : 1..MaxWindow,
     overlap_words : 0..(MaxWindow + 1)]

InitPlain ==
    /\ w_cfg \in PlainConfigs
    /\ w_text \in {PlainText(n) : n \in 0..MaxPlainWords}
    /\ w_words = <<>>
    /\ w_start = 0
    /\ w_index = 0
    /\ w_chunks = <<>>
    /\ w_pc = "enter"
    /\ LimiterIdle
    /\ RetryIdle
    /\ ChunkIdle
    /\ IngestIdle
    /\ BuilderIdle
    /\ PipelineIdle
    /\ SingletonIdle
    /\ PairIdle

\* lines 107-114: split the text; no words, no chunks
PlainEnter ==
    /\ w_pc = "enter"
    /\ w_words' = Split(w_text)
    /\ w_pc' = IF Len(Split(w_text)) = 0 THEN "done" ELSE "loop"
    /\ UNCHANGED <<w_cfg, w_text, w_start, w_index, w_chunks>>
    /\ UNCHANGED <<limiterVars, retryVars, chunkVars, ingestVars,
                   builderVars, pipelineVars, singletonVars, pairVars>>

\* lines 116-142: one pass of the while loop
PlainPass ==
    /\ w_pc = "loop"
    /\ w_start < Len(w_words)
    /\ w_chunks' = Append(w_chunks,
                          PlainChunk(w_words, w_start, w_index, "en", w_cfg))
    /\ w_start' = NextStart(w_words, w_start, w_cfg)
    /\ w_index' = w_index + 1
    /\ UNCHANGED <<w_cfg, w_text, w_words, w_pc>>
    /\ UNCHANGED <<limiterVars, retryVars, chunkVars, ingestVars,
                   builderVars, pipelineVars, singletonVars, pairVars>>

\* lines 116 and 144: the loop condition fails, chunks is returned
PlainReturn ==
    /\ w_pc = "loop"
    /\ w_start >= Len(w_words)
    /\ w_pc' = "done"
    /\ UNCHANGED <<w_cfg, w_text, w_words, w_start, w_index, w_chunks>>
    /\ UNCHANGED <<limiterVars, retryVars, chunkVars, ingestVars,
                   builderVars, pipelineVars, singletonVars, pairVars>>

NextPlain ==
    \/ PlainEnter
    \/ PlainPass
    \/ PlainReturn

\* the loop is sequential code: a pass that can be made is made
SpecPlain == InitPlain /\ [][NextPlain]_vars /\ WF_vars(NextPlain)

\* the words in the chunks made so far
WordsInChunks ==
    UNION {{Split(w_chunks[k].text)[n] :
                n \in 1..Len(Split(w_chunks[k].text))} :
           k \in 1..Len(w_chunks)}

\* C21: for every text and every max_words >= 1 and overlap_words >= 0
\* (overlap_words >= max_words included) the call returns, each pass of
\* the loop starts its window at a later word than the pass before, and
\* every word of the text is in a chunk of the list returned, which is the
\* list chunk_plain_text computes.
C21_PlainLoopTerminates ==
    /\ <>(w_pc = "done")
    /\ [][w_index' # w_index => w_start' > w_start]_vars
    /\ [](w_pc = "done" =>
             /\ \A n \in 1..Len(Split(w_text)) :
                    Split(w_text)[n] \in WordsInChunks
             /\ w_chunks = chunk_plain_text(w_text, "en", w_cfg))

\* C21 witness: with overlap_words larger than max_words, a text of more
\* words than three windows hold was returned in more than three chunks.
C21_Witness ==
    /\ w_pc = "done"
    /\ w_cfg.overlap_words > w_cfg.max_words
    /\ Len(w_words) > 3 * w_cfg.max_words
    /\ Len(w_chunks) > 3

(***************************************************************************)
(*                            get_rate_limiter                             *)
(* Threads call get_rate_limiter concurrently; each read and each write of *)
(* the module global is one step, so first calls can race.                 *)
(***************************************************************************)

\* ---- bounds ----
MaxGets == 5

InitSingleton ==
    /\ s_global = None
    /\ s_lock = 0
    /\ s_pc = [t \in Threads |-> "idle"]
    /\ s_built = 0
    /\ s_rets = <<>>
    /\ LimiterIdle
    /\ RetryIdle
    /\ ChunkIdle
    /\ IngestIdle
    /\ BuilderIdle
    /\ PipelineIdle
    /\ PlainIdle
    /\ PairIdle

\* the calls begun so far
GetsBegun ==
    Len(s_rets) + Cardinality({t \in Threads : s_pc[t] # "idle"})

\* line 114: the first `if _global_rate_limiter is None`, without the lock
GetCheck(t) ==
    /\ s_pc[t] = "idle"
    /\ GetsBegun < MaxGets
    /\ s_pc' = [s_pc EXCEPT ![t] = IF s_global = None THEN "lock"
                                   ELSE "return"]
    /\ UNCHANGED <<s_global, s_lock, s_built, s_rets>>
    /\ UNCHANGED <<limiterVars, retryVars, chunkVars, ingestVars,
                   builderVars, pipelineVars, plainVars, pairVars>>

\* line 115: `with _limiter_lock:` is entered once the lock is free
GetLock(t) ==
    /\ s_pc[t] = "lock"
    /\ s_lock = 0
    /\ s_lock' = t
    /\ s_pc' = [s_pc EXCEPT ![t] = "recheck"]
    /\ UNCHANGED <<s_global, s_built, s_rets>>
    /\ UNCHANGED <<limiterVars, retryVars, chunkVars, ingestVars,
                   builderVars, pipelineVars, plainVars, pairVars>>

\* mutant: the test under the lock is left out
StillNoneUnchecked == TRUE

\* line 116: the second `if _global_rate_limiter is None`, under the lock
StillNone == s_global = None

\* line 116: the test under the lock
GetRecheck(t) ==
    /\ s_pc[t] = "recheck"
    /\ s_pc' = [s_pc EXCEPT ![t] = IF StillNone THEN "construct"
                                   ELSE "unlock"]
    /\ UNCHANGED <<s_global, s_lock, s_built, s_rets>>
    /\ UNCHANGED <<limiterVars, retryVars, chunkVars, ingestVars,
                   builderVars, pipelineVars, plainVars, pairVars>>

\* line 117: SupadataRateLimiter() is constructed and assigned to the
\* global; instances are numbered in the order they are made
GetConstruct(t) ==
    /\ s_pc[t] = "construct"
    /\ s_built' = s_built + 1
    /\ s_global' = s_built + 1
    /\ s_pc' = [s_pc EXCEPT ![t] = "unlock"]
    /\ UNCHANGED <<s_lock, s_rets>>
    /\ UNCHANGED <<limiterVars, retryVars, chunkVars, ingestVars,
                   builderVars, pipelineVars, plainVars, pairVars>>

\* the `with` block is left
GetUnlock(t) ==
    /\ s_pc[t] = "unlock"
    /\ s_lock' = 0
    /\ s_pc' = [s_pc EXCEPT ![t] = "return"]
    /\ UNCHANGED <<s_global, s_built, s_rets>>
    /\ UNCHANGED <<limiterVars, retryVars, chunkVars, ingestVars,
                   builderVars, pipelineVars, plainVars, pairVars>>

\* line 119: return _global_rate_limiter
GetReturn(t) ==
    /\ s_pc[t] = "return"
    /\ s_rets' = Append(s_rets, [by |-> t, instance |-> s_global])
    /\ s_pc' = [s_pc EXCEPT ![t] = "idle"]
    /\ UNCHANGED <<s_global, s_lock, s_built>>
    /\ UNCHANGED <<limiterVars, retryVars, chunkVars, ingestVars,
                   builderVars, pipelineVars, plainVars, pairVars>>

NextSingleton ==
    \/ \E t \in Threads : GetCheck(t)
    \/ \E t \in Threads : GetLock(t)
    \/ \E t \in Threads : GetRecheck(t)
    \/ \E t \in Threads : GetConstruct(t)
    \/ \E t \in Threads : GetUnlock(t)
    \/ \E t \in Threads : GetReturn(t)

SpecSingleton == InitSingleton /\ [][NextSingleton]_vars

\* C26: however the calls of get_rate_limiter interleave, at most one
\* SupadataRateLimiter is constructed, and every call returns an instance,
\* the same one for all calls.
C26_OneLimiter ==
    /\ s_built <= 1
    /\ \A k \in 1..Len(s_rets) :
          /\ s_rets[k].instance # None
          /\ s_rets[k].instance = s_rets[1].instance

\* C26 witness: two first calls raced: a thread that saw the global unset
\* before taking the lock finds it set under the lock, after the thread
\* that constructed the limiter has returned it.
C26_Witness ==
    \E t \in Threads :
        /\ s_pc[t] = "recheck"
        /\ s_global # None
        /\ \E k \in 1..Len(s_rets) : s_rets[k].by # t

(***************************************************************************)
(*          Two tasks in add_transcript_chunks for the same video          *)
(* Both tasks are called with the same arguments on one collection; every  *)
(* call to the store and to the embedding model is one step, and may       *)
(* raise.                                                                  *)
(***************************************************************************)

Tasks == {1, 2}

\* marks, in q_failed, the embedding call of a task
EmbeddingStep == -1

InitPair ==
    /\ q_store \in InitialStores
    /\ q_in \in IngestInputs
    /\ q_in.transcript_response \in PairTranscripts
    /\ q_clock = 0
    /\ q_pc = [t \in Tasks |-> "check"]
    /\ q_points = [t \in Tasks |-> <<>>]
    /\ q_i = [t \in Tasks |-> 0]
    /\ q_added = [t \in Tasks |-> 0]
    /\ q_ret = [t \in Tasks |-> <<>>]
    /\ q_failed = {}
    /\ LimiterIdle
    /\ RetryIdle
    /\ ChunkIdle
    /\ IngestIdle
    /\ BuilderIdle
    /\ PipelineIdle
    /\ PlainIdle
    /\ SingletonIdle

\* task t returns `value`
PairReturn(t, value) ==
    /\ q_ret' = [q_ret EXCEPT ![t] = <<value>>]
    /\ q_pc' = [q_pc EXCEPT ![t] = "done"]

\* lines 476-478 with video_chunks_exist, lines 532-553: the scroll answers
PairCheckExists(t) ==
    /\ q_pc[t] = "check"
    /\ IF ScrollFinds(q_store, q_in.video_id)
       THEN PairReturn(t, 0)
       ELSE /\ q_pc' = [q_pc EXCEPT ![t] = "chunk"]
            /\ UNCHANGED q_ret
    /\ UNCHANGED <<q_store, q_in, q_clock, q_points, q_i, q_added, q_failed>>
    /\ UNCHANGED <<limiterVars, retryVars, chunkVars, ingestVars,
                   builderVars, pipelineVars, plainVars, singletonVars>>

\* lines 476 and 551-553: the scroll raises, video_chunks_exist returns False
PairCheckExistsFails(t) ==
    /\ q_pc[t] = "check"
    /\ q_pc' = [q_pc EXCEPT ![t] = "chunk"]
    /\ UNCHANGED <<q_store, q_in, q_clock, q_points, q_i, q_added, q_ret,
                   q_failed>>
    /\ UNCHANGED <<limiterVars, retryVars, chunkVars, ingestVars,
                   builderVars, pipelineVars, plainVars, singletonVars>>

\* lines 480-496: chunk the transcript and build ids and payloads; the
\* payload's created_at (chunking_utils.py line 281) is the time of the
\* call, kept beside the payload
PairCreateChunks(t) ==
    /\ q_pc[t] = "chunk"
    /\ LET chunk_data == ChunkData(q_in)
       IN /\ q_points' = [q_points EXCEPT ![t] =
                 [k \in 1..Len(chunk_data) |->
                     [id |-> chunk_data[k].point_id,
                      payload |-> chunk_data[k].payload,
                      created_at |-> q_clock]]]
          /\ IF Len(chunk_data) = 0
             THEN PairReturn(t, 0)
             ELSE /\ q_pc' = [q_pc EXCEPT ![t] = "embed"]
                  /\ UNCHANGED q_ret
    /\ q_clock' = q_clock + 1
    /\ UNCHANGED <<q_store, q_in, q_i, q_added, q_failed>>
    /\ UNCHANGED <<limiterVars, retryVars, chunkVars, ingestVars,
                   builderVars, pipelineVars, plainVars, singletonVars>>

\* lines 498-512: the embeddings are computed and the points are built
PairEmbed(t) ==
    /\ q_pc[t] = "embed"
    /\ q_pc' = [q_pc EXCEPT ![t] = "upsert"]
    /\ UNCHANGED <<q_store, q_in, q_clock, q_points, q_i, q_added, q_ret,
                   q_failed>>
    /\ UNCHANGED <<limiterVars, retryVars, chunkVars, ingestVars,
                   builderVars, pipelineVars, plainVars, singletonVars>>

\* lines 500 and 528-530: generate_embeddings_batch raises, the call
\* returns 0
PairEmbedFails(t) ==
    /\ q_pc[t] = "embed"
    /\ PairReturn(t, 0)
    /\ q_failed' = q_failed \cup {<<t, EmbeddingStep>>}
    /\ UNCHANGED <<q_store, q_in, q_clock, q_points, q_i, q_added>>
    /\ UNCHANGED <<limiterVars, retryVars, chunkVars, ingestVars,
                   builderVars, pipelineVars, plainVars, singletonVars>>

\* lines 514-520: the upsert of one batch succeeds
PairUpsertBatch(t) ==
    /\ q_pc[t] = "upsert"
    /\ q_i[t] < Len(q_points[t])
    /\ q_store' = Upsert(q_store, Batch(q_points[t], q_i[t]))
    /\ q_added' = [q_added EXCEPT ![t] = @ + Len(Batch(q_points[t], q_i[t]))]
    /\ q_i' = [q_i EXCEPT ![t] = @ + BatchSize]
    /\ UNCHANGED <<q_in, q_clock, q_pc, q_points, q_ret, q_failed>>
    /\ UNCHANGED <<limiterVars, retryVars, chunkVars, ingestVars,
                   builderVars, pipelineVars, plainVars, singletonVars>>

\* lines 514-523: the upsert of one batch raises and the batch is skipped
PairUpsertBatchFails(t) ==
    /\ q_pc[t] = "upsert"
    /\ q_i[t] < Len(q_points[t])
    /\ q_i' = [q_i EXCEPT ![t] = @ + BatchSize]
    /\ q_failed' = q_failed \cup {<<t, q_i[t]>>}
    /\ UNCHANGED <<q_store, q_in, q_clock, q_pc, q_points, q_added, q_ret>>
    /\ UNCHANGED <<limiterVars, retryVars, chunkVars, ingestVars,
                   builderVars, pipelineVars, plainVars, singletonVars>>

\* lines 525-526: after the last batch, return added_count
PairReturnAdded(t) ==
    /\ q_pc[t] = "upsert"
    /\ q_i[t] >= Len(q_points[t])
    /\ PairReturn(t, q_added[t])
    /\ UNCHANGED <<q_store, q_in, q_clock, q_points, q_i, q_added, q_failed>>
    /\ UNCHANGED <<limiterVars, retryVars, chunkVars, ingestVars,
                   builderVars, pipelineVars, plainVars, singletonVars>>

NextPair ==
    \/ \E t \in Tasks : PairCheckExists(t)
    \/ \E t \in Tasks : PairCheckExistsFails(t)
    \/ \E t \in Tasks : PairCreateChunks(t)
    \/ \E t \in Tasks : PairEmbed(t)
    \/ \E t \in Tasks : PairEmbedFails(t)
    \/ \E t \in Tasks : PairUpsertBatch(t)
    \/ \E t \in Tasks : PairUpsertBatchFails(t)
    \/ \E t \in Tasks : PairReturnAdded(t)

SpecPair == InitPair /\ [][NextPair]_vars

\* the points of the video in the shared collection
PairVideoPoints == {p \in q_store : p.payload.video_id = q_in.video_id}

\* the point ids a single ingestion of the arguments stores
PairExpectedIds ==
    LET chunk_data == ChunkData(q_in)
    IN {chunk_data[k].point_id : k \in 1..Len(chunk_data)}

\* both tasks have returned
PairDone == \A t \in Tasks : q_pc[t] = "done"

====
